---- MODULE Spec2Model ----
(***************************************************************************)
(* Matchmaking server of OpenMelee (src/src/matchmaking.rs): the ENet      *)
(* polling loop of start_server, the event handler handle_enet_event, the  *)
(* grouping pass handle_matchmaking and the session builder create_game.   *)
(* One step of the model is one iteration of the loop of start_server.     *)
(***************************************************************************)
EXTENDS Integers, Sequences, FiniteSets, TLC

(***************************************************************************)
(* Bounds of the model.                                                    *)
(***************************************************************************)
\* number of peer slots of the ENet host (config.matchmaking_max_peers)
NPeers == 3

Peers == 1..NPeers

\* Option::<String>::None: a string that is the text of no string (a
\* backslash in a text is followed by u)
None == "\\None"

\* Option::<CreateTicket>::None, the data of a peer with no ticket
NoTicket == [ticket |-> "None"]

(***************************************************************************)
(* Enumerations.                                                           *)
(***************************************************************************)
\* enum OnlinePlayMode, by its serde_repr number
OnlinePlayMode == [n \in 0..3 |-> <<"Ranked", "Unranked", "Direct", "Teams">>[n + 1]]

Modes == {OnlinePlayMode[n] : n \in DOMAIN OnlinePlayMode}

\* impl fmt::Display for OnlinePlayMode
ModeDisplay(mode) ==
    CASE mode = "Ranked" -> "ranked"
      [] mode = "Unranked" -> "unranked"
      [] mode = "Direct" -> "direct"
      [] mode = "Teams" -> "teams"

\* the port Four forgotten in the Teams arm
get_ports_TeamsThree(mode) ==
    IF mode = "Teams" THEN <<"One", "Two", "Three">>
    ELSE <<"One", "Two">>

\* the four ports for every mode
get_ports_AllFour(mode) == <<"One", "Two", "Three", "Four">>

\* ControllerPort::get_ports
get_ports(mode) ==
    IF mode = "Teams" THEN <<"One", "Two", "Three", "Four">>
    ELSE <<"One", "Two">>

\* enum Stage, by its serde_repr number
StageId(stage) ==
    CASE stage = "FountainOfDreams" -> 2
      [] stage = "PokemonStadium" -> 3
      [] stage = "YoshisStory" -> 8
      [] stage = "DreamLand" -> 28
      [] stage = "Battlefield" -> 31
      [] stage = "FinalDestination" -> 32

\* the match arms swapped: FountainOfDreams pushed for Teams only
get_allowed_stages_ArmsSwapped(mode) ==
    LET allowed_stages ==
            <<"PokemonStadium", "YoshisStory", "DreamLand", "Battlefield",
              "FinalDestination">>
    IN  IF mode # "Teams" THEN allowed_stages
        ELSE Append(allowed_stages, "FountainOfDreams")

\* Stage::get_allowed_stages
get_allowed_stages(mode) ==
    LET allowed_stages ==
            <<"PokemonStadium", "YoshisStory", "DreamLand", "Battlefield",
              "FinalDestination">>
    IN  IF mode = "Teams" THEN allowed_stages
        ELSE Append(allowed_stages, "FountainOfDreams")

\* LATEST_SLIPPI_CLIENT_VERSION
LatestVersion == "2.5.1"

(***************************************************************************)
(* Wire codec of the inbound create-ticket message.                        *)
(***************************************************************************)
Letters ==
    <<"A", "B", "C", "D", "E", "F", "G", "H", "I", "J", "K", "L", "M",
      "N", "O", "P", "Q", "R", "S", "T", "U", "V", "W", "X", "Y", "Z">>

\* The index jis0208 of the Encoding Standard, which SHIFT_JIS of
\* encoding_rs decodes two-byte characters with: the code point at pointer
\* 188 * row + cell is Jis0208[row + 1][cell + 1], 0 when the pointer has none.
Jis0208 ==
    <<
      <<
        12288, 12289, 12290, 65292, 65294, 12539, 65306, 65307, 65311, 65281, 12443, 12444, 180, 65344, 168, 65342,
        65507, 65343, 12541, 12542, 12445, 12446, 12291, 20189, 12293, 12294, 12295, 12540, 8213, 8208, 65295, 65340,
        65374, 8741, 65372, 8230, 8229, 8216, 8217, 8220, 8221, 65288, 65289, 12308, 12309, 65339, 65341, 65371,
        65373, 12296, 12297, 12298, 12299, 12300, 12301, 12302, 12303, 12304, 12305, 65291, 65293, 177, 215, 247,
        65309, 8800, 65308, 65310, 8806, 8807, 8734, 8756, 9794, 9792, 176, 8242, 8243, 8451, 65509, 65284,
        65504, 65505, 65285, 65283, 65286, 65290, 65312, 167, 9734, 9733, 9675, 9679, 9678, 9671, 9670, 9633,
        9632, 9651, 9650, 9661, 9660, 8251, 12306, 8594, 8592, 8593, 8595, 12307, 0, 0, 0, 0,
        0, 0, 0, 0, 0, 0, 0, 8712, 8715, 8838, 8839, 8834, 8835, 8746, 8745, 0,
        0, 0, 0, 0, 0, 0, 0, 8743, 8744, 65506, 8658, 8660, 8704, 8707, 0, 0,
        0, 0, 0, 0, 0, 0, 0, 0, 0, 8736, 8869, 8978, 8706, 8711, 8801, 8786,
        8810, 8811, 8730, 8765, 8733, 8757, 8747, 8748, 0, 0, 0, 0, 0, 0, 0, 8491,
        8240, 9839, 9837, 9834, 8224, 8225, 182, 0, 0, 0, 0, 9711
      >>,
      <<
        0, 0, 0, 0, 0, 0, 0, 0, 0, 0, 0, 0, 0, 0, 0, 65296,
        65297, 65298, 65299, 65300, 65301, 65302, 65303, 65304, 65305, 0, 0, 0, 0, 0, 0, 0,
        65313, 65314, 65315, 65316, 65317, 65318, 65319, 65320, 65321, 65322, 65323, 65324, 65325, 65326, 65327, 65328,
        65329, 65330, 65331, 65332, 65333, 65334, 65335, 65336, 65337, 65338, 0, 0, 0, 0, 0, 0,
        65345, 65346, 65347, 65348, 65349, 65350, 65351, 65352, 65353, 65354, 65355, 65356, 65357, 65358, 65359, 65360,
        65361, 65362, 65363, 65364, 65365, 65366, 65367, 65368, 65369, 65370, 0, 0, 0, 0, 12353, 12354,
        12355, 12356, 12357, 12358, 12359, 12360, 12361, 12362, 12363, 12364, 12365, 12366, 12367, 12368, 12369, 12370,
        12371, 12372, 12373, 12374, 12375, 12376, 12377, 12378, 12379, 12380, 12381, 12382, 12383, 12384, 12385, 12386,
        12387, 12388, 12389, 12390, 12391, 12392, 12393, 12394, 12395, 12396, 12397, 12398, 12399, 12400, 12401, 12402,
        12403, 12404, 12405, 12406, 12407, 12408, 12409, 12410, 12411, 12412, 12413, 12414, 12415, 12416, 12417, 12418,
        12419, 12420, 12421, 12422, 12423, 12424, 12425, 12426, 12427, 12428, 12429, 12430, 12431, 12432, 12433, 12434,
        12435, 0, 0, 0, 0, 0, 0, 0, 0, 0, 0, 0
      >>,
      <<
        12449, 12450, 12451, 12452, 12453, 12454, 12455, 12456, 12457, 12458, 12459, 12460, 12461, 12462, 12463, 12464,
        12465, 12466, 12467, 12468, 12469, 12470, 12471, 12472, 12473, 12474, 12475, 12476, 12477, 12478, 12479, 12480,
        12481, 12482, 12483, 12484, 12485, 12486, 12487, 12488, 12489, 12490, 12491, 12492, 12493, 12494, 12495, 12496,
        12497, 12498, 12499, 12500, 12501, 12502, 12503, 12504, 12505, 12506, 12507, 12508, 12509, 12510, 12511, 12512,
        12513, 12514, 12515, 12516, 12517, 12518, 12519, 12520, 12521, 12522, 12523, 12524, 12525, 12526, 12527, 12528,
        12529, 12530, 12531, 12532, 12533, 12534, 0, 0, 0, 0, 0, 0, 0, 0, 913, 914,
        915, 916, 917, 918, 919, 920, 921, 922, 923, 924, 925, 926, 927, 928, 929, 931,
        932, 933, 934, 935, 936, 937, 0, 0, 0, 0, 0, 0, 0, 0, 945, 946,
        947, 948, 949, 950, 951, 952, 953, 954, 955, 956, 957, 958, 959, 960, 961, 963,
        964, 965, 966, 967, 968, 969, 0, 0, 0, 0, 0, 0, 0, 0, 0, 0,
        0, 0, 0, 0, 0, 0, 0, 0, 0, 0, 0, 0, 0, 0, 0, 0,
        0, 0, 0, 0, 0, 0, 0, 0, 0, 0, 0, 0
      >>,
      <<
        1040, 1041, 1042, 1043, 1044, 1045, 1025, 1046, 1047, 1048, 1049, 1050, 1051, 1052, 1053, 1054,
        1055, 1056, 1057, 1058, 1059, 1060, 1061, 1062, 1063, 1064, 1065, 1066, 1067, 1068, 1069, 1070,
        1071, 0, 0, 0, 0, 0, 0, 0, 0, 0, 0, 0, 0, 0, 0, 0,
        1072, 1073, 1074, 1075, 1076, 1077, 1105, 1078, 1079, 1080, 1081, 1082, 1083, 1084, 1085, 1086,
        1087, 1088, 1089, 1090, 1091, 1092, 1093, 1094, 1095, 1096, 1097, 1098, 1099, 1100, 1101, 1102,
        1103, 0, 0, 0, 0, 0, 0, 0, 0, 0, 0, 0, 0, 0, 9472, 9474,
        9484, 9488, 9496, 9492, 9500, 9516, 9508, 9524, 9532, 9473, 9475, 9487, 9491, 9499, 9495, 9507,
        9523, 9515, 9531, 9547, 9504, 9519, 9512, 9527, 9535, 9501, 9520, 9509, 9528, 9538, 0, 0,
        0, 0, 0, 0, 0, 0, 0, 0, 0, 0, 0, 0, 0, 0, 0, 0,
        0, 0, 0, 0, 0, 0, 0, 0, 0, 0, 0, 0, 0, 0, 0, 0,
        0, 0, 0, 0, 0, 0, 0, 0, 0, 0, 0, 0, 0, 0, 0, 0,
        0, 0, 0, 0, 0, 0, 0, 0, 0, 0, 0, 0
      >>,
      [cell \in 1..188 |-> 0],
      [cell \in 1..188 |-> 0],
      <<
        9312, 9313, 9314, 9315, 9316, 9317, 9318, 9319, 9320, 9321, 9322, 9323, 9324, 9325, 9326, 9327,
        9328, 9329, 9330, 9331, 8544, 8545, 8546, 8547, 8548, 8549, 8550, 8551, 8552, 8553, 0, 13129,
        13076, 13090, 13133, 13080, 13095, 13059, 13110, 13137, 13143, 13069, 13094, 13091, 13099, 13130, 13115, 13212,
        13213, 13214, 13198, 13199, 13252, 13217, 0, 0, 0, 0, 0, 0, 0, 0, 13179, 12317,
        12319, 8470, 13261, 8481, 12964, 12965, 12966, 12967, 12968, 12849, 12850, 12857, 13182, 13181, 13180, 8786,
        8801, 8747, 8750, 8721, 8730, 8869, 8736, 8735, 8895, 8757, 8745, 8746, 0, 0, 0, 0,
        0, 0, 0, 0, 0, 0, 0, 0, 0, 0, 0, 0, 0, 0, 0, 0,
        0, 0, 0, 0, 0, 0, 0, 0, 0, 0, 0, 0, 0, 0, 0, 0,
        0, 0, 0, 0, 0, 0, 0, 0, 0, 0, 0, 0, 0, 0, 0, 0,
        0, 0, 0, 0, 0, 0, 0, 0, 0, 0, 0, 0, 0, 0, 0, 0,
        0, 0, 0, 0, 0, 0, 0, 0, 0, 0, 0, 0, 0, 0, 0, 0,
        0, 0, 0, 0, 0, 0, 0, 0, 0, 0, 0, 0
      >>,
      <<
        0, 0, 0, 0, 0, 0, 0, 0, 0, 0, 0, 0, 0, 0, 0, 0,
        0, 0, 0, 0, 0, 0, 0, 0, 0, 0, 0, 0, 0, 0, 0, 0,
        0, 0, 0, 0, 0, 0, 0, 0, 0, 0, 0, 0, 0, 0, 0, 0,
        0, 0, 0, 0, 0, 0, 0, 0, 0, 0, 0, 0, 0, 0, 0, 0,
        0, 0, 0, 0, 0, 0, 0, 0, 0, 0, 0, 0, 0, 0, 0, 0,
        0, 0, 0, 0, 0, 0, 0, 0, 0, 0, 0, 0, 0, 0, 20124, 21782,
        23043, 38463, 21696, 24859, 25384, 23030, 36898, 33909, 33564, 31312, 24746, 25569, 28197, 26093, 33894, 33446,
        39925, 26771, 22311, 26017, 25201, 23451, 22992, 34427, 39156, 32098, 32190, 39822, 25110, 31903, 34999, 23433,
        24245, 25353, 26263, 26696, 38343, 38797, 26447, 20197, 20234, 20301, 20381, 20553, 22258, 22839, 22996, 23041,
        23561, 24799, 24847, 24944, 26131, 26885, 28858, 30031, 30064, 31227, 32173, 32239, 32963, 33806, 34915, 35586,
        36949, 36986, 21307, 20117, 20133, 22495, 32946, 37057, 30959, 19968, 22769, 28322, 36920, 31282, 33576, 33419,
        39983, 20801, 21360, 21693, 21729, 22240, 23035, 24341, 39154, 28139, 32996, 34093
      >>,
      <<
        38498, 38512, 38560, 38907, 21515, 21491, 23431, 28879, 32701, 36802, 38632, 21359, 40284, 31418, 19985, 30867,
        33276, 28198, 22040, 21764, 27421, 34074, 39995, 23013, 21417, 28006, 29916, 38287, 22082, 20113, 36939, 38642,
        33615, 39180, 21473, 21942, 23344, 24433, 26144, 26355, 26628, 27704, 27891, 27945, 29787, 30408, 31310, 38964,
        33521, 34907, 35424, 37613, 28082, 30123, 30410, 39365, 24742, 35585, 36234, 38322, 27022, 21421, 20870, 22290,
        22576, 22852, 23476, 24310, 24616, 25513, 25588, 27839, 28436, 28814, 28948, 29017, 29141, 29503, 32257, 33398,
        33489, 34199, 36960, 37467, 40219, 22633, 26044, 27738, 29989, 20985, 22830, 22885, 24448, 24540, 25276, 26106,
        27178, 27431, 27572, 29579, 32705, 35158, 40236, 40206, 40644, 23713, 27798, 33659, 20740, 23627, 25014, 33222,
        26742, 29281, 20057, 20474, 21368, 24681, 28201, 31311, 38899, 19979, 21270, 20206, 20309, 20285, 20385, 20339,
        21152, 21487, 22025, 22799, 23233, 23478, 23521, 31185, 26247, 26524, 26550, 27468, 27827, 28779, 29634, 31117,
        31166, 31292, 31623, 33457, 33499, 33540, 33655, 33775, 33747, 34662, 35506, 22057, 36008, 36838, 36942, 38686,
        34442, 20420, 23784, 25105, 29273, 30011, 33253, 33469, 34558, 36032, 38597, 39187, 39381, 20171, 20250, 35299,
        22238, 22602, 22730, 24315, 24555, 24618, 24724, 24674, 25040, 25106, 25296, 25913
      >>,
      <<
        39745, 26214, 26800, 28023, 28784, 30028, 30342, 32117, 33445, 34809, 38283, 38542, 35997, 20977, 21182, 22806,
        21683, 23475, 23830, 24936, 27010, 28079, 30861, 33995, 34903, 35442, 37799, 39608, 28012, 39336, 34521, 22435,
        26623, 34510, 37390, 21123, 22151, 21508, 24275, 25313, 25785, 26684, 26680, 27579, 29554, 30906, 31339, 35226,
        35282, 36203, 36611, 37101, 38307, 38548, 38761, 23398, 23731, 27005, 38989, 38990, 25499, 31520, 27179, 27263,
        26806, 39949, 28511, 21106, 21917, 24688, 25324, 27963, 28167, 28369, 33883, 35088, 36676, 19988, 39993, 21494,
        26907, 27194, 38788, 26666, 20828, 31427, 33970, 37340, 37772, 22107, 40232, 26658, 33541, 33841, 31909, 21000,
        33477, 29926, 20094, 20355, 20896, 23506, 21002, 21208, 21223, 24059, 21914, 22570, 23014, 23436, 23448, 23515,
        24178, 24185, 24739, 24863, 24931, 25022, 25563, 25954, 26577, 26707, 26874, 27454, 27475, 27735, 28450, 28567,
        28485, 29872, 29976, 30435, 30475, 31487, 31649, 31777, 32233, 32566, 32752, 32925, 33382, 33694, 35251, 35532,
        36011, 36996, 37969, 38291, 38289, 38306, 38501, 38867, 39208, 33304, 20024, 21547, 23736, 24012, 29609, 30284,
        30524, 23721, 32747, 36107, 38593, 38929, 38996, 39000, 20225, 20238, 21361, 21916, 22120, 22522, 22855, 23305,
        23492, 23696, 24076, 24190, 24524, 25582, 26426, 26071, 26082, 26399, 26827, 26820
      >>,
      <<
        27231, 24112, 27589, 27671, 27773, 30079, 31048, 23395, 31232, 32000, 24509, 35215, 35352, 36020, 36215, 36556,
        36637, 39138, 39438, 39740, 20096, 20605, 20736, 22931, 23452, 25135, 25216, 25836, 27450, 29344, 30097, 31047,
        32681, 34811, 35516, 35696, 25516, 33738, 38816, 21513, 21507, 21931, 26708, 27224, 35440, 30759, 26485, 40653,
        21364, 23458, 33050, 34384, 36870, 19992, 20037, 20167, 20241, 21450, 21560, 23470, 24339, 24613, 25937, 26429,
        27714, 27762, 27875, 28792, 29699, 31350, 31406, 31496, 32026, 31998, 32102, 26087, 29275, 21435, 23621, 24040,
        25298, 25312, 25369, 28192, 34394, 35377, 36317, 37624, 28417, 31142, 39770, 20136, 20139, 20140, 20379, 20384,
        20689, 20807, 31478, 20849, 20982, 21332, 21281, 21375, 21483, 21932, 22659, 23777, 24375, 24394, 24623, 24656,
        24685, 25375, 25945, 27211, 27841, 29378, 29421, 30703, 33016, 33029, 33288, 34126, 37111, 37857, 38911, 39255,
        39514, 20208, 20957, 23597, 26241, 26989, 23616, 26354, 26997, 29577, 26704, 31873, 20677, 21220, 22343, 24062,
        37670, 26020, 27427, 27453, 29748, 31105, 31165, 31563, 32202, 33465, 33740, 34943, 35167, 35641, 36817, 37329,
        21535, 37504, 20061, 20534, 21477, 21306, 29399, 29590, 30697, 33510, 36527, 39366, 39368, 39378, 20855, 24858,
        34398, 21936, 31354, 20598, 23507, 36935, 38533, 20018, 27355, 37351, 23633, 23624
      >>,
      <<
        25496, 31391, 27795, 38772, 36705, 31402, 29066, 38536, 31874, 26647, 32368, 26705, 37740, 21234, 21531, 34219,
        35347, 32676, 36557, 37089, 21350, 34952, 31041, 20418, 20670, 21009, 20804, 21843, 22317, 29674, 22411, 22865,
        24418, 24452, 24693, 24950, 24935, 25001, 25522, 25658, 25964, 26223, 26690, 28179, 30054, 31293, 31995, 32076,
        32153, 32331, 32619, 33550, 33610, 34509, 35336, 35427, 35686, 36605, 38938, 40335, 33464, 36814, 39912, 21127,
        25119, 25731, 28608, 38553, 26689, 20625, 27424, 27770, 28500, 31348, 32080, 34880, 35363, 26376, 20214, 20537,
        20518, 20581, 20860, 21048, 21091, 21927, 22287, 22533, 23244, 24314, 25010, 25080, 25331, 25458, 26908, 27177,
        29309, 29356, 29486, 30740, 30831, 32121, 30476, 32937, 35211, 35609, 36066, 36562, 36963, 37749, 38522, 38997,
        39443, 40568, 20803, 21407, 21427, 24187, 24358, 28187, 28304, 29572, 29694, 32067, 33335, 35328, 35578, 38480,
        20046, 20491, 21476, 21628, 22266, 22993, 23396, 24049, 24235, 24359, 25144, 25925, 26543, 28246, 29392, 31946,
        34996, 32929, 32993, 33776, 34382, 35463, 36328, 37431, 38599, 39015, 40723, 20116, 20114, 20237, 21320, 21577,
        21566, 23087, 24460, 24481, 24735, 26791, 27278, 29786, 30849, 35486, 35492, 35703, 37264, 20062, 39881, 20132,
        20348, 20399, 20505, 20502, 20809, 20844, 21151, 21177, 21246, 21402, 21475, 21521
      >>,
      <<
        21518, 21897, 22353, 22434, 22909, 23380, 23389, 23439, 24037, 24039, 24055, 24184, 24195, 24218, 24247, 24344,
        24658, 24908, 25239, 25304, 25511, 25915, 26114, 26179, 26356, 26477, 26657, 26775, 27083, 27743, 27946, 28009,
        28207, 28317, 30002, 30343, 30828, 31295, 31968, 32005, 32024, 32094, 32177, 32789, 32771, 32943, 32945, 33108,
        33167, 33322, 33618, 34892, 34913, 35611, 36002, 36092, 37066, 37237, 37489, 30783, 37628, 38308, 38477, 38917,
        39321, 39640, 40251, 21083, 21163, 21495, 21512, 22741, 25335, 28640, 35946, 36703, 40633, 20811, 21051, 21578,
        22269, 31296, 37239, 40288, 40658, 29508, 28425, 33136, 29969, 24573, 24794, 39592, 29403, 36796, 27492, 38915,
        20170, 22256, 22372, 22718, 23130, 24680, 25031, 26127, 26118, 26681, 26801, 28151, 30165, 32058, 33390, 39746,
        20123, 20304, 21449, 21766, 23919, 24038, 24046, 26619, 27801, 29811, 30722, 35408, 37782, 35039, 22352, 24231,
        25387, 20661, 20652, 20877, 26368, 21705, 22622, 22971, 23472, 24425, 25165, 25505, 26685, 27507, 28168, 28797,
        37319, 29312, 30741, 30758, 31085, 25998, 32048, 33756, 35009, 36617, 38555, 21092, 22312, 26448, 32618, 36001,
        20916, 22338, 38442, 22586, 27018, 32948, 21682, 23822, 22524, 30869, 40442, 20316, 21066, 21643, 25662, 26152,
        26388, 26613, 31364, 31574, 32034, 37679, 26716, 39853, 31545, 21273, 20874, 21047
      >>,
      <<
        23519, 25334, 25774, 25830, 26413, 27578, 34217, 38609, 30352, 39894, 25420, 37638, 39851, 30399, 26194, 19977,
        20632, 21442, 23665, 24808, 25746, 25955, 26719, 29158, 29642, 29987, 31639, 32386, 34453, 35715, 36059, 37240,
        39184, 26028, 26283, 27531, 20181, 20180, 20282, 20351, 21050, 21496, 21490, 21987, 22235, 22763, 22987, 22985,
        23039, 23376, 23629, 24066, 24107, 24535, 24605, 25351, 25903, 23388, 26031, 26045, 26088, 26525, 27490, 27515,
        27663, 29509, 31049, 31169, 31992, 32025, 32043, 32930, 33026, 33267, 35222, 35422, 35433, 35430, 35468, 35566,
        36039, 36060, 38604, 39164, 27503, 20107, 20284, 20365, 20816, 23383, 23546, 24904, 25345, 26178, 27425, 28363,
        27835, 29246, 29885, 30164, 30913, 31034, 32780, 32819, 33258, 33940, 36766, 27728, 40575, 24335, 35672, 40235,
        31482, 36600, 23437, 38635, 19971, 21489, 22519, 22833, 23241, 23460, 24713, 28287, 28422, 30142, 36074, 23455,
        34048, 31712, 20594, 26612, 33437, 23649, 34122, 32286, 33294, 20889, 23556, 25448, 36198, 26012, 29038, 31038,
        32023, 32773, 35613, 36554, 36974, 34503, 37034, 20511, 21242, 23610, 26451, 28796, 29237, 37196, 37320, 37675,
        33509, 23490, 24369, 24825, 20027, 21462, 23432, 25163, 26417, 27530, 29417, 29664, 31278, 33131, 36259, 37202,
        39318, 20754, 21463, 21610, 23551, 25480, 27193, 32172, 38656, 22234, 21454, 21608
      >>,
      <<
        23447, 23601, 24030, 20462, 24833, 25342, 27954, 31168, 31179, 32066, 32333, 32722, 33261, 33311, 33936, 34886,
        35186, 35728, 36468, 36655, 36913, 37195, 37228, 38598, 37276, 20160, 20303, 20805, 21313, 24467, 25102, 26580,
        27713, 28171, 29539, 32294, 37325, 37507, 21460, 22809, 23487, 28113, 31069, 32302, 31899, 22654, 29087, 20986,
        34899, 36848, 20426, 23803, 26149, 30636, 31459, 33308, 39423, 20934, 24490, 26092, 26991, 27529, 28147, 28310,
        28516, 30462, 32020, 24033, 36981, 37255, 38918, 20966, 21021, 25152, 26257, 26329, 28186, 24246, 32210, 32626,
        26360, 34223, 34295, 35576, 21161, 21465, 22899, 24207, 24464, 24661, 37604, 38500, 20663, 20767, 21213, 21280,
        21319, 21484, 21736, 21830, 21809, 22039, 22888, 22974, 23100, 23477, 23558, 23567, 23569, 23578, 24196, 24202,
        24288, 24432, 25215, 25220, 25307, 25484, 25463, 26119, 26124, 26157, 26230, 26494, 26786, 27167, 27189, 27836,
        28040, 28169, 28248, 28988, 28966, 29031, 30151, 30465, 30813, 30977, 31077, 31216, 31456, 31505, 31911, 32057,
        32918, 33750, 33931, 34121, 34909, 35059, 35359, 35388, 35412, 35443, 35937, 36062, 37284, 37478, 37758, 37912,
        38556, 38808, 19978, 19976, 19998, 20055, 20887, 21104, 22478, 22580, 22732, 23330, 24120, 24773, 25854, 26465,
        26454, 27972, 29366, 30067, 31331, 33976, 35698, 37304, 37664, 22065, 22516, 39166
      >>,
      <<
        25325, 26893, 27542, 29165, 32340, 32887, 33394, 35302, 39135, 34645, 36785, 23611, 20280, 20449, 20405, 21767,
        23072, 23517, 23529, 24515, 24910, 25391, 26032, 26187, 26862, 27035, 28024, 28145, 30003, 30137, 30495, 31070,
        31206, 32051, 33251, 33455, 34218, 35242, 35386, 36523, 36763, 36914, 37341, 38663, 20154, 20161, 20995, 22645,
        22764, 23563, 29978, 23613, 33102, 35338, 36805, 38499, 38765, 31525, 35535, 38920, 37218, 22259, 21416, 36887,
        21561, 22402, 24101, 25512, 27700, 28810, 30561, 31883, 32736, 34928, 36930, 37204, 37648, 37656, 38543, 29790,
        39620, 23815, 23913, 25968, 26530, 36264, 38619, 25454, 26441, 26905, 33733, 38935, 38592, 35070, 28548, 25722,
        23544, 19990, 28716, 30045, 26159, 20932, 21046, 21218, 22995, 24449, 24615, 25104, 25919, 25972, 26143, 26228,
        26866, 26646, 27491, 28165, 29298, 29983, 30427, 31934, 32854, 22768, 35069, 35199, 35488, 35475, 35531, 36893,
        37266, 38738, 38745, 25993, 31246, 33030, 38587, 24109, 24796, 25114, 26021, 26132, 26512, 30707, 31309, 31821,
        32318, 33034, 36012, 36196, 36321, 36447, 30889, 20999, 25305, 25509, 25666, 25240, 35373, 31363, 31680, 35500,
        38634, 32118, 33292, 34633, 20185, 20808, 21315, 21344, 23459, 23554, 23574, 24029, 25126, 25159, 25776, 26643,
        26676, 27849, 27973, 27927, 26579, 28508, 29006, 29053, 26059, 31359, 31661, 32218
      >>,
      <<
        32330, 32680, 33146, 33307, 33337, 34214, 35438, 36046, 36341, 36984, 36983, 37549, 37521, 38275, 39854, 21069,
        21892, 28472, 28982, 20840, 31109, 32341, 33203, 31950, 22092, 22609, 23720, 25514, 26366, 26365, 26970, 29401,
        30095, 30094, 30990, 31062, 31199, 31895, 32032, 32068, 34311, 35380, 38459, 36961, 40736, 20711, 21109, 21452,
        21474, 20489, 21930, 22766, 22863, 29245, 23435, 23652, 21277, 24803, 24819, 25436, 25475, 25407, 25531, 25805,
        26089, 26361, 24035, 27085, 27133, 28437, 29157, 20105, 30185, 30456, 31379, 31967, 32207, 32156, 32865, 33609,
        33624, 33900, 33980, 34299, 35013, 36208, 36865, 36973, 37783, 38684, 39442, 20687, 22679, 24974, 33235, 34101,
        36104, 36896, 20419, 20596, 21063, 21363, 24687, 25417, 26463, 28204, 36275, 36895, 20439, 23646, 36042, 26063,
        32154, 21330, 34966, 20854, 25539, 23384, 23403, 23562, 25613, 26449, 36956, 20182, 22810, 22826, 27760, 35409,
        21822, 22549, 22949, 24816, 25171, 26561, 33333, 26965, 38464, 39364, 39464, 20307, 22534, 23550, 32784, 23729,
        24111, 24453, 24608, 24907, 25140, 26367, 27888, 28382, 32974, 33151, 33492, 34955, 36024, 36864, 36910, 38538,
        40667, 39899, 20195, 21488, 22823, 31532, 37261, 38988, 40441, 28381, 28711, 21331, 21828, 23429, 25176, 25246,
        25299, 27810, 28655, 29730, 35351, 37944, 28609, 35582, 33592, 20967, 34552, 21482
      >>,
      <<
        21481, 20294, 36948, 36784, 22890, 33073, 24061, 31466, 36799, 26842, 35895, 29432, 40008, 27197, 35504, 20025,
        21336, 22022, 22374, 25285, 25506, 26086, 27470, 28129, 28251, 28845, 30701, 31471, 31658, 32187, 32829, 32966,
        34507, 35477, 37723, 22243, 22727, 24382, 26029, 26262, 27264, 27573, 30007, 35527, 20516, 30693, 22320, 24347,
        24677, 26234, 27744, 30196, 31258, 32622, 33268, 34584, 36933, 39347, 31689, 30044, 31481, 31569, 33988, 36880,
        31209, 31378, 33590, 23265, 30528, 20013, 20210, 23449, 24544, 25277, 26172, 26609, 27880, 34411, 34935, 35387,
        37198, 37619, 39376, 27159, 28710, 29482, 33511, 33879, 36015, 19969, 20806, 20939, 21899, 23541, 24086, 24115,
        24193, 24340, 24373, 24427, 24500, 25074, 25361, 26274, 26397, 28526, 29266, 30010, 30522, 32884, 33081, 33144,
        34678, 35519, 35548, 36229, 36339, 37530, 38263, 38914, 40165, 21189, 25431, 30452, 26389, 27784, 29645, 36035,
        37806, 38515, 27941, 22684, 26894, 27084, 36861, 37786, 30171, 36890, 22618, 26626, 25524, 27131, 20291, 28460,
        26584, 36795, 34086, 32180, 37716, 26943, 28528, 22378, 22775, 23340, 32044, 29226, 21514, 37347, 40372, 20141,
        20302, 20572, 20597, 21059, 35998, 21576, 22564, 23450, 24093, 24213, 24237, 24311, 24351, 24716, 25269, 25402,
        25552, 26799, 27712, 30855, 31118, 31243, 32224, 33351, 35330, 35558, 36420, 36883
      >>,
      <<
        37048, 37165, 37336, 40718, 27877, 25688, 25826, 25973, 28404, 30340, 31515, 36969, 37841, 28346, 21746, 24505,
        25764, 36685, 36845, 37444, 20856, 22635, 22825, 23637, 24215, 28155, 32399, 29980, 36028, 36578, 39003, 28857,
        20253, 27583, 28593, 30000, 38651, 20814, 21520, 22581, 22615, 22956, 23648, 24466, 26007, 26460, 28193, 30331,
        33759, 36077, 36884, 37117, 37709, 30757, 30778, 21162, 24230, 22303, 22900, 24594, 20498, 20826, 20908, 20941,
        20992, 21776, 22612, 22616, 22871, 23445, 23798, 23947, 24764, 25237, 25645, 26481, 26691, 26812, 26847, 30423,
        28120, 28271, 28059, 28783, 29128, 24403, 30168, 31095, 31561, 31572, 31570, 31958, 32113, 21040, 33891, 34153,
        34276, 35342, 35588, 35910, 36367, 36867, 36879, 37913, 38518, 38957, 39472, 38360, 20685, 21205, 21516, 22530,
        23566, 24999, 25758, 27934, 30643, 31461, 33012, 33796, 36947, 37509, 23776, 40199, 21311, 24471, 24499, 28060,
        29305, 30563, 31167, 31716, 27602, 29420, 35501, 26627, 27233, 20984, 31361, 26932, 23626, 40182, 33515, 23493,
        37193, 28702, 22136, 23663, 24775, 25958, 27788, 35930, 36929, 38931, 21585, 26311, 37389, 22856, 37027, 20869,
        20045, 20970, 34201, 35598, 28760, 25466, 37707, 26978, 39348, 32260, 30071, 21335, 26976, 36575, 38627, 27741,
        20108, 23612, 24336, 36841, 21250, 36049, 32905, 34425, 24319, 26085, 20083, 20837
      >>,
      <<
        22914, 23615, 38894, 20219, 22922, 24525, 35469, 28641, 31152, 31074, 23527, 33905, 29483, 29105, 24180, 24565,
        25467, 25754, 29123, 31896, 20035, 24316, 20043, 22492, 22178, 24745, 28611, 32013, 33021, 33075, 33215, 36786,
        35223, 34468, 24052, 25226, 25773, 35207, 26487, 27874, 27966, 29750, 30772, 23110, 32629, 33453, 39340, 20467,
        24259, 25309, 25490, 25943, 26479, 30403, 29260, 32972, 32954, 36649, 37197, 20493, 22521, 23186, 26757, 26995,
        29028, 29437, 36023, 22770, 36064, 38506, 36889, 34687, 31204, 30695, 33833, 20271, 21093, 21338, 25293, 26575,
        27850, 30333, 31636, 31893, 33334, 34180, 36843, 26333, 28448, 29190, 32283, 33707, 39361, 40614, 20989, 31665,
        30834, 31672, 32903, 31560, 27368, 24161, 32908, 30033, 30048, 20843, 37474, 28300, 30330, 37271, 39658, 20240,
        32624, 25244, 31567, 38309, 40169, 22138, 22617, 34532, 38588, 20276, 21028, 21322, 21453, 21467, 24070, 25644,
        26001, 26495, 27710, 27726, 29256, 29359, 29677, 30036, 32321, 33324, 34281, 36009, 31684, 37318, 29033, 38930,
        39151, 25405, 26217, 30058, 30436, 30928, 34115, 34542, 21290, 21329, 21542, 22915, 24199, 24444, 24754, 25161,
        25209, 25259, 26000, 27604, 27852, 30130, 30382, 30865, 31192, 32203, 32631, 32933, 34987, 35513, 36027, 36991,
        38750, 39131, 27147, 31800, 20633, 23614, 24494, 26503, 27608, 29749, 30473, 32654
      >>,
      <<
        40763, 26570, 31255, 21305, 30091, 39661, 24422, 33181, 33777, 32920, 24380, 24517, 30050, 31558, 36924, 26727,
        23019, 23195, 32016, 30334, 35628, 20469, 24426, 27161, 27703, 28418, 29922, 31080, 34920, 35413, 35961, 24287,
        25551, 30149, 31186, 33495, 37672, 37618, 33948, 34541, 39981, 21697, 24428, 25996, 27996, 28693, 36007, 36051,
        38971, 25935, 29942, 19981, 20184, 22496, 22827, 23142, 23500, 20904, 24067, 24220, 24598, 25206, 25975, 26023,
        26222, 28014, 29238, 31526, 33104, 33178, 33433, 35676, 36000, 36070, 36212, 38428, 38468, 20398, 25771, 27494,
        33310, 33889, 34154, 37096, 23553, 26963, 39080, 33914, 34135, 20239, 21103, 24489, 24133, 26381, 31119, 33145,
        35079, 35206, 28149, 24343, 25173, 27832, 20175, 29289, 39826, 20998, 21563, 22132, 22707, 24996, 25198, 28954,
        22894, 31881, 31966, 32027, 38640, 25991, 32862, 19993, 20341, 20853, 22592, 24163, 24179, 24330, 26564, 20006,
        34109, 38281, 38491, 31859, 38913, 20731, 22721, 30294, 30887, 21029, 30629, 34065, 31622, 20559, 22793, 29255,
        31687, 32232, 36794, 36820, 36941, 20415, 21193, 23081, 24321, 38829, 20445, 33303, 37610, 22275, 25429, 27497,
        29995, 35036, 36628, 31298, 21215, 22675, 24917, 25098, 26286, 27597, 31807, 33769, 20515, 20472, 21253, 21574,
        22577, 22857, 23453, 23792, 23791, 23849, 24214, 25265, 25447, 25918, 26041, 26379
      >>,
      <<
        27861, 27873, 28921, 30770, 32299, 32990, 33459, 33804, 34028, 34562, 35090, 35370, 35914, 37030, 37586, 39165,
        40179, 40300, 20047, 20129, 20621, 21078, 22346, 22952, 24125, 24536, 24537, 25151, 26292, 26395, 26576, 26834,
        20882, 32033, 32938, 33192, 35584, 35980, 36031, 37502, 38450, 21536, 38956, 21271, 20693, 21340, 22696, 25778,
        26420, 29287, 30566, 31302, 37350, 21187, 27809, 27526, 22528, 24140, 22868, 26412, 32763, 20961, 30406, 25705,
        30952, 39764, 40635, 22475, 22969, 26151, 26522, 27598, 21737, 27097, 24149, 33180, 26517, 39850, 26622, 40018,
        26717, 20134, 20451, 21448, 25273, 26411, 27819, 36804, 20397, 32365, 40639, 19975, 24930, 28288, 28459, 34067,
        21619, 26410, 39749, 24051, 31637, 23724, 23494, 34588, 28234, 34001, 31252, 33032, 22937, 31885, 27665, 30496,
        21209, 22818, 28961, 29279, 30683, 38695, 40289, 26891, 23167, 23064, 20901, 21517, 21629, 26126, 30431, 36855,
        37528, 40180, 23018, 29277, 28357, 20813, 26825, 32191, 32236, 38754, 40634, 25720, 27169, 33538, 22916, 23391,
        27611, 29467, 30450, 32178, 32791, 33945, 20786, 26408, 40665, 30446, 26466, 21247, 39173, 23588, 25147, 31870,
        36016, 21839, 24758, 32011, 38272, 21249, 20063, 20918, 22812, 29242, 32822, 37326, 24357, 30690, 21380, 24441,
        32004, 34220, 35379, 36493, 38742, 26611, 34222, 37971, 24841, 24840, 27833, 30290
      >>,
      <<
        35565, 36664, 21807, 20305, 20778, 21191, 21451, 23461, 24189, 24736, 24962, 25558, 26377, 26586, 28263, 28044,
        29494, 29495, 30001, 31056, 35029, 35480, 36938, 37009, 37109, 38596, 34701, 22805, 20104, 20313, 19982, 35465,
        36671, 38928, 20653, 24188, 22934, 23481, 24248, 25562, 25594, 25793, 26332, 26954, 27096, 27915, 28342, 29076,
        29992, 31407, 32650, 32768, 33865, 33993, 35201, 35617, 36362, 36965, 38525, 39178, 24958, 25233, 27442, 27779,
        28020, 32716, 32764, 28096, 32645, 34746, 35064, 26469, 33713, 38972, 38647, 27931, 32097, 33853, 37226, 20081,
        21365, 23888, 27396, 28651, 34253, 34349, 35239, 21033, 21519, 23653, 26446, 26792, 29702, 29827, 30178, 35023,
        35041, 37324, 38626, 38520, 24459, 29575, 31435, 33870, 25504, 30053, 21129, 27969, 28316, 29705, 30041, 30827,
        31890, 38534, 31452, 40845, 20406, 24942, 26053, 34396, 20102, 20142, 20698, 20001, 20940, 23534, 26009, 26753,
        28092, 29471, 30274, 30637, 31260, 31975, 33391, 35538, 36988, 37327, 38517, 38936, 21147, 32209, 20523, 21400,
        26519, 28107, 29136, 29747, 33256, 36650, 38563, 40023, 40607, 29792, 22593, 28057, 32047, 39006, 20196, 20278,
        20363, 20919, 21169, 23994, 24604, 29618, 31036, 33491, 37428, 38583, 38646, 38666, 40599, 40802, 26278, 27508,
        21015, 21155, 28872, 35010, 24265, 24651, 24976, 28451, 29001, 31806, 32244, 32879
      >>,
      <<
        34030, 36899, 37676, 21570, 39791, 27347, 28809, 36034, 36335, 38706, 21172, 23105, 24266, 24324, 26391, 27004,
        27028, 28010, 28431, 29282, 29436, 31725, 32769, 32894, 34635, 37070, 20845, 40595, 31108, 32907, 37682, 35542,
        20525, 21644, 35441, 27498, 36036, 33031, 24785, 26528, 40434, 20121, 20120, 39952, 35435, 34241, 34152, 26880,
        28286, 30871, 33109, 0, 0, 0, 0, 0, 0, 0, 0, 0, 0, 0, 0, 0,
        0, 0, 0, 0, 0, 0, 0, 0, 0, 0, 0, 0, 0, 0, 0, 0,
        0, 0, 0, 0, 0, 0, 0, 0, 0, 0, 0, 0, 0, 0, 24332, 19984,
        19989, 20010, 20017, 20022, 20028, 20031, 20034, 20054, 20056, 20098, 20101, 35947, 20106, 33298, 24333, 20110,
        20126, 20127, 20128, 20130, 20144, 20147, 20150, 20174, 20173, 20164, 20166, 20162, 20183, 20190, 20205, 20191,
        20215, 20233, 20314, 20272, 20315, 20317, 20311, 20295, 20342, 20360, 20367, 20376, 20347, 20329, 20336, 20369,
        20335, 20358, 20374, 20760, 20436, 20447, 20430, 20440, 20443, 20433, 20442, 20432, 20452, 20453, 20506, 20520,
        20500, 20522, 20517, 20485, 20252, 20470, 20513, 20521, 20524, 20478, 20463, 20497, 20486, 20547, 20551, 26371,
        20565, 20560, 20552, 20570, 20566, 20588, 20600, 20608, 20634, 20613, 20660, 20658
      >>,
      <<
        20681, 20682, 20659, 20674, 20694, 20702, 20709, 20717, 20707, 20718, 20729, 20725, 20745, 20737, 20738, 20758,
        20757, 20756, 20762, 20769, 20794, 20791, 20796, 20795, 20799, 20800, 20818, 20812, 20820, 20834, 31480, 20841,
        20842, 20846, 20864, 20866, 22232, 20876, 20873, 20879, 20881, 20883, 20885, 20886, 20900, 20902, 20898, 20905,
        20906, 20907, 20915, 20913, 20914, 20912, 20917, 20925, 20933, 20937, 20955, 20960, 34389, 20969, 20973, 20976,
        20981, 20990, 20996, 21003, 21012, 21006, 21031, 21034, 21038, 21043, 21049, 21071, 21060, 21067, 21068, 21086,
        21076, 21098, 21108, 21097, 21107, 21119, 21117, 21133, 21140, 21138, 21105, 21128, 21137, 36776, 36775, 21164,
        21165, 21180, 21173, 21185, 21197, 21207, 21214, 21219, 21222, 39149, 21216, 21235, 21237, 21240, 21241, 21254,
        21256, 30008, 21261, 21264, 21263, 21269, 21274, 21283, 21295, 21297, 21299, 21304, 21312, 21318, 21317, 19991,
        21321, 21325, 20950, 21342, 21353, 21358, 22808, 21371, 21367, 21378, 21398, 21408, 21414, 21413, 21422, 21424,
        21430, 21443, 31762, 38617, 21471, 26364, 29166, 21486, 21480, 21485, 21498, 21505, 21565, 21568, 21548, 21549,
        21564, 21550, 21558, 21545, 21533, 21582, 21647, 21621, 21646, 21599, 21617, 21623, 21616, 21650, 21627, 21632,
        21622, 21636, 21648, 21638, 21703, 21666, 21688, 21669, 21676, 21700, 21704, 21672
      >>,
      <<
        21675, 21698, 21668, 21694, 21692, 21720, 21733, 21734, 21775, 21780, 21757, 21742, 21741, 21754, 21730, 21817,
        21824, 21859, 21836, 21806, 21852, 21829, 21846, 21847, 21816, 21811, 21853, 21913, 21888, 21679, 21898, 21919,
        21883, 21886, 21912, 21918, 21934, 21884, 21891, 21929, 21895, 21928, 21978, 21957, 21983, 21956, 21980, 21988,
        21972, 22036, 22007, 22038, 22014, 22013, 22043, 22009, 22094, 22096, 29151, 22068, 22070, 22066, 22072, 22123,
        22116, 22063, 22124, 22122, 22150, 22144, 22154, 22176, 22164, 22159, 22181, 22190, 22198, 22196, 22210, 22204,
        22209, 22211, 22208, 22216, 22222, 22225, 22227, 22231, 22254, 22265, 22272, 22271, 22276, 22281, 22280, 22283,
        22285, 22291, 22296, 22294, 21959, 22300, 22310, 22327, 22328, 22350, 22331, 22336, 22351, 22377, 22464, 22408,
        22369, 22399, 22409, 22419, 22432, 22451, 22436, 22442, 22448, 22467, 22470, 22484, 22482, 22483, 22538, 22486,
        22499, 22539, 22553, 22557, 22642, 22561, 22626, 22603, 22640, 27584, 22610, 22589, 22649, 22661, 22713, 22687,
        22699, 22714, 22750, 22715, 22712, 22702, 22725, 22739, 22737, 22743, 22745, 22744, 22757, 22748, 22756, 22751,
        22767, 22778, 22777, 22779, 22780, 22781, 22786, 22794, 22800, 22811, 26790, 22821, 22828, 22829, 22834, 22840,
        22846, 31442, 22869, 22864, 22862, 22874, 22872, 22882, 22880, 22887, 22892, 22889
      >>,
      <<
        22904, 22913, 22941, 20318, 20395, 22947, 22962, 22982, 23016, 23004, 22925, 23001, 23002, 23077, 23071, 23057,
        23068, 23049, 23066, 23104, 23148, 23113, 23093, 23094, 23138, 23146, 23194, 23228, 23230, 23243, 23234, 23229,
        23267, 23255, 23270, 23273, 23254, 23290, 23291, 23308, 23307, 23318, 23346, 23248, 23338, 23350, 23358, 23363,
        23365, 23360, 23377, 23381, 23386, 23387, 23397, 23401, 23408, 23411, 23413, 23416, 25992, 23418, 23424, 23427,
        23462, 23480, 23491, 23495, 23497, 23508, 23504, 23524, 23526, 23522, 23518, 23525, 23531, 23536, 23542, 23539,
        23557, 23559, 23560, 23565, 23571, 23584, 23586, 23592, 23608, 23609, 23617, 23622, 23630, 23635, 23632, 23631,
        23409, 23660, 23662, 20066, 23670, 23673, 23692, 23697, 23700, 22939, 23723, 23739, 23734, 23740, 23735, 23749,
        23742, 23751, 23769, 23785, 23805, 23802, 23789, 23948, 23786, 23819, 23829, 23831, 23900, 23839, 23835, 23825,
        23828, 23842, 23834, 23833, 23832, 23884, 23890, 23886, 23883, 23916, 23923, 23926, 23943, 23940, 23938, 23970,
        23965, 23980, 23982, 23997, 23952, 23991, 23996, 24009, 24013, 24019, 24018, 24022, 24027, 24043, 24050, 24053,
        24075, 24090, 24089, 24081, 24091, 24118, 24119, 24132, 24131, 24128, 24142, 24151, 24148, 24159, 24162, 24164,
        24135, 24181, 24182, 24186, 40636, 24191, 24224, 24257, 24258, 24264, 24272, 24271
      >>,
      <<
        24278, 24291, 24285, 24282, 24283, 24290, 24289, 24296, 24297, 24300, 24305, 24307, 24304, 24308, 24312, 24318,
        24323, 24329, 24413, 24412, 24331, 24337, 24342, 24361, 24365, 24376, 24385, 24392, 24396, 24398, 24367, 24401,
        24406, 24407, 24409, 24417, 24429, 24435, 24439, 24451, 24450, 24447, 24458, 24456, 24465, 24455, 24478, 24473,
        24472, 24480, 24488, 24493, 24508, 24534, 24571, 24548, 24568, 24561, 24541, 24755, 24575, 24609, 24672, 24601,
        24592, 24617, 24590, 24625, 24603, 24597, 24619, 24614, 24591, 24634, 24666, 24641, 24682, 24695, 24671, 24650,
        24646, 24653, 24675, 24643, 24676, 24642, 24684, 24683, 24665, 24705, 24717, 24807, 24707, 24730, 24708, 24731,
        24726, 24727, 24722, 24743, 24715, 24801, 24760, 24800, 24787, 24756, 24560, 24765, 24774, 24757, 24792, 24909,
        24853, 24838, 24822, 24823, 24832, 24820, 24826, 24835, 24865, 24827, 24817, 24845, 24846, 24903, 24894, 24872,
        24871, 24906, 24895, 24892, 24876, 24884, 24893, 24898, 24900, 24947, 24951, 24920, 24921, 24922, 24939, 24948,
        24943, 24933, 24945, 24927, 24925, 24915, 24949, 24985, 24982, 24967, 25004, 24980, 24986, 24970, 24977, 25003,
        25006, 25036, 25034, 25033, 25079, 25032, 25027, 25030, 25018, 25035, 32633, 25037, 25062, 25059, 25078, 25082,
        25076, 25087, 25085, 25084, 25086, 25088, 25096, 25097, 25101, 25100, 25108, 25115
      >>,
      <<
        25118, 25121, 25130, 25134, 25136, 25138, 25139, 25153, 25166, 25182, 25187, 25179, 25184, 25192, 25212, 25218,
        25225, 25214, 25234, 25235, 25238, 25300, 25219, 25236, 25303, 25297, 25275, 25295, 25343, 25286, 25812, 25288,
        25308, 25292, 25290, 25282, 25287, 25243, 25289, 25356, 25326, 25329, 25383, 25346, 25352, 25327, 25333, 25424,
        25406, 25421, 25628, 25423, 25494, 25486, 25472, 25515, 25462, 25507, 25487, 25481, 25503, 25525, 25451, 25449,
        25534, 25577, 25536, 25542, 25571, 25545, 25554, 25590, 25540, 25622, 25652, 25606, 25619, 25638, 25654, 25885,
        25623, 25640, 25615, 25703, 25711, 25718, 25678, 25898, 25749, 25747, 25765, 25769, 25736, 25788, 25818, 25810,
        25797, 25799, 25787, 25816, 25794, 25841, 25831, 33289, 25824, 25825, 25260, 25827, 25839, 25900, 25846, 25844,
        25842, 25850, 25856, 25853, 25880, 25884, 25861, 25892, 25891, 25899, 25908, 25909, 25911, 25910, 25912, 30027,
        25928, 25942, 25941, 25933, 25944, 25950, 25949, 25970, 25976, 25986, 25987, 35722, 26011, 26015, 26027, 26039,
        26051, 26054, 26049, 26052, 26060, 26066, 26075, 26073, 26080, 26081, 26097, 26482, 26122, 26115, 26107, 26483,
        26165, 26166, 26164, 26140, 26191, 26180, 26185, 26177, 26206, 26205, 26212, 26215, 26216, 26207, 26210, 26224,
        26243, 26248, 26254, 26249, 26244, 26264, 26269, 26305, 26297, 26313, 26302, 26300
      >>,
      <<
        26308, 26296, 26326, 26330, 26336, 26175, 26342, 26345, 26352, 26357, 26359, 26383, 26390, 26398, 26406, 26407,
        38712, 26414, 26431, 26422, 26433, 26424, 26423, 26438, 26462, 26464, 26457, 26467, 26468, 26505, 26480, 26537,
        26492, 26474, 26508, 26507, 26534, 26529, 26501, 26551, 26607, 26548, 26604, 26547, 26601, 26552, 26596, 26590,
        26589, 26594, 26606, 26553, 26574, 26566, 26599, 27292, 26654, 26694, 26665, 26688, 26701, 26674, 26702, 26803,
        26667, 26713, 26723, 26743, 26751, 26783, 26767, 26797, 26772, 26781, 26779, 26755, 27310, 26809, 26740, 26805,
        26784, 26810, 26895, 26765, 26750, 26881, 26826, 26888, 26840, 26914, 26918, 26849, 26892, 26829, 26836, 26855,
        26837, 26934, 26898, 26884, 26839, 26851, 26917, 26873, 26848, 26863, 26920, 26922, 26906, 26915, 26913, 26822,
        27001, 26999, 26972, 27000, 26987, 26964, 27006, 26990, 26937, 26996, 26941, 26969, 26928, 26977, 26974, 26973,
        27009, 26986, 27058, 27054, 27088, 27071, 27073, 27091, 27070, 27086, 23528, 27082, 27101, 27067, 27075, 27047,
        27182, 27025, 27040, 27036, 27029, 27060, 27102, 27112, 27138, 27163, 27135, 27402, 27129, 27122, 27111, 27141,
        27057, 27166, 27117, 27156, 27115, 27146, 27154, 27329, 27171, 27155, 27204, 27148, 27250, 27190, 27256, 27207,
        27234, 27225, 27238, 27208, 27192, 27170, 27280, 27277, 27296, 27268, 27298, 27299
      >>,
      <<
        27287, 34327, 27323, 27331, 27330, 27320, 27315, 27308, 27358, 27345, 27359, 27306, 27354, 27370, 27387, 27397,
        34326, 27386, 27410, 27414, 39729, 27423, 27448, 27447, 30428, 27449, 39150, 27463, 27459, 27465, 27472, 27481,
        27476, 27483, 27487, 27489, 27512, 27513, 27519, 27520, 27524, 27523, 27533, 27544, 27541, 27550, 27556, 27562,
        27563, 27567, 27570, 27569, 27571, 27575, 27580, 27590, 27595, 27603, 27615, 27628, 27627, 27635, 27631, 40638,
        27656, 27667, 27668, 27675, 27684, 27683, 27742, 27733, 27746, 27754, 27778, 27789, 27802, 27777, 27803, 27774,
        27752, 27763, 27794, 27792, 27844, 27889, 27859, 27837, 27863, 27845, 27869, 27822, 27825, 27838, 27834, 27867,
        27887, 27865, 27882, 27935, 34893, 27958, 27947, 27965, 27960, 27929, 27957, 27955, 27922, 27916, 28003, 28051,
        28004, 27994, 28025, 27993, 28046, 28053, 28644, 28037, 28153, 28181, 28170, 28085, 28103, 28134, 28088, 28102,
        28140, 28126, 28108, 28136, 28114, 28101, 28154, 28121, 28132, 28117, 28138, 28142, 28205, 28270, 28206, 28185,
        28274, 28255, 28222, 28195, 28267, 28203, 28278, 28237, 28191, 28227, 28218, 28238, 28196, 28415, 28189, 28216,
        28290, 28330, 28312, 28361, 28343, 28371, 28349, 28335, 28356, 28338, 28372, 28373, 28303, 28325, 28354, 28319,
        28481, 28433, 28748, 28396, 28408, 28414, 28479, 28402, 28465, 28399, 28466, 28364
      >>,
      <<
        28478, 28435, 28407, 28550, 28538, 28536, 28545, 28544, 28527, 28507, 28659, 28525, 28546, 28540, 28504, 28558,
        28561, 28610, 28518, 28595, 28579, 28577, 28580, 28601, 28614, 28586, 28639, 28629, 28652, 28628, 28632, 28657,
        28654, 28635, 28681, 28683, 28666, 28689, 28673, 28687, 28670, 28699, 28698, 28532, 28701, 28696, 28703, 28720,
        28734, 28722, 28753, 28771, 28825, 28818, 28847, 28913, 28844, 28856, 28851, 28846, 28895, 28875, 28893, 28889,
        28937, 28925, 28956, 28953, 29029, 29013, 29064, 29030, 29026, 29004, 29014, 29036, 29071, 29179, 29060, 29077,
        29096, 29100, 29143, 29113, 29118, 29138, 29129, 29140, 29134, 29152, 29164, 29159, 29173, 29180, 29177, 29183,
        29197, 29200, 29211, 29224, 29229, 29228, 29232, 29234, 29243, 29244, 29247, 29248, 29254, 29259, 29272, 29300,
        29310, 29314, 29313, 29319, 29330, 29334, 29346, 29351, 29369, 29362, 29379, 29382, 29380, 29390, 29394, 29410,
        29408, 29409, 29433, 29431, 20495, 29463, 29450, 29468, 29462, 29469, 29492, 29487, 29481, 29477, 29502, 29518,
        29519, 40664, 29527, 29546, 29544, 29552, 29560, 29557, 29563, 29562, 29640, 29619, 29646, 29627, 29632, 29669,
        29678, 29662, 29858, 29701, 29807, 29733, 29688, 29746, 29754, 29781, 29759, 29791, 29785, 29761, 29788, 29801,
        29808, 29795, 29802, 29814, 29822, 29835, 29854, 29863, 29898, 29903, 29908, 29681
      >>,
      <<
        29920, 29923, 29927, 29929, 29934, 29938, 29936, 29937, 29944, 29943, 29956, 29955, 29957, 29964, 29966, 29965,
        29973, 29971, 29982, 29990, 29996, 30012, 30020, 30029, 30026, 30025, 30043, 30022, 30042, 30057, 30052, 30055,
        30059, 30061, 30072, 30070, 30086, 30087, 30068, 30090, 30089, 30082, 30100, 30106, 30109, 30117, 30115, 30146,
        30131, 30147, 30133, 30141, 30136, 30140, 30129, 30157, 30154, 30162, 30169, 30179, 30174, 30206, 30207, 30204,
        30209, 30192, 30202, 30194, 30195, 30219, 30221, 30217, 30239, 30247, 30240, 30241, 30242, 30244, 30260, 30256,
        30267, 30279, 30280, 30278, 30300, 30296, 30305, 30306, 30312, 30313, 30314, 30311, 30316, 30320, 30322, 30326,
        30328, 30332, 30336, 30339, 30344, 30347, 30350, 30358, 30355, 30361, 30362, 30384, 30388, 30392, 30393, 30394,
        30402, 30413, 30422, 30418, 30430, 30433, 30437, 30439, 30442, 34351, 30459, 30472, 30471, 30468, 30505, 30500,
        30494, 30501, 30502, 30491, 30519, 30520, 30535, 30554, 30568, 30571, 30555, 30565, 30591, 30590, 30585, 30606,
        30603, 30609, 30624, 30622, 30640, 30646, 30649, 30655, 30652, 30653, 30651, 30663, 30669, 30679, 30682, 30684,
        30691, 30702, 30716, 30732, 30738, 31014, 30752, 31018, 30789, 30862, 30836, 30854, 30844, 30874, 30860, 30883,
        30901, 30890, 30895, 30929, 30918, 30923, 30932, 30910, 30908, 30917, 30922, 30956
      >>,
      <<
        30951, 30938, 30973, 30964, 30983, 30994, 30993, 31001, 31020, 31019, 31040, 31072, 31063, 31071, 31066, 31061,
        31059, 31098, 31103, 31114, 31133, 31143, 40779, 31146, 31150, 31155, 31161, 31162, 31177, 31189, 31207, 31212,
        31201, 31203, 31240, 31245, 31256, 31257, 31264, 31263, 31104, 31281, 31291, 31294, 31287, 31299, 31319, 31305,
        31329, 31330, 31337, 40861, 31344, 31353, 31357, 31368, 31383, 31381, 31384, 31382, 31401, 31432, 31408, 31414,
        31429, 31428, 31423, 36995, 31431, 31434, 31437, 31439, 31445, 31443, 31449, 31450, 31453, 31457, 31458, 31462,
        31469, 31472, 31490, 31503, 31498, 31494, 31539, 31512, 31513, 31518, 31541, 31528, 31542, 31568, 31610, 31492,
        31565, 31499, 31564, 31557, 31605, 31589, 31604, 31591, 31600, 31601, 31596, 31598, 31645, 31640, 31647, 31629,
        31644, 31642, 31627, 31634, 31631, 31581, 31641, 31691, 31681, 31692, 31695, 31668, 31686, 31709, 31721, 31761,
        31764, 31718, 31717, 31840, 31744, 31751, 31763, 31731, 31735, 31767, 31757, 31734, 31779, 31783, 31786, 31775,
        31799, 31787, 31805, 31820, 31811, 31828, 31823, 31808, 31824, 31832, 31839, 31844, 31830, 31845, 31852, 31861,
        31875, 31888, 31908, 31917, 31906, 31915, 31905, 31912, 31923, 31922, 31921, 31918, 31929, 31933, 31936, 31941,
        31938, 31960, 31954, 31964, 31970, 39739, 31983, 31986, 31988, 31990, 31994, 32006
      >>,
      <<
        32002, 32028, 32021, 32010, 32069, 32075, 32046, 32050, 32063, 32053, 32070, 32115, 32086, 32078, 32114, 32104,
        32110, 32079, 32099, 32147, 32137, 32091, 32143, 32125, 32155, 32186, 32174, 32163, 32181, 32199, 32189, 32171,
        32317, 32162, 32175, 32220, 32184, 32159, 32176, 32216, 32221, 32228, 32222, 32251, 32242, 32225, 32261, 32266,
        32291, 32289, 32274, 32305, 32287, 32265, 32267, 32290, 32326, 32358, 32315, 32309, 32313, 32323, 32311, 32306,
        32314, 32359, 32349, 32342, 32350, 32345, 32346, 32377, 32362, 32361, 32380, 32379, 32387, 32213, 32381, 36782,
        32383, 32392, 32393, 32396, 32402, 32400, 32403, 32404, 32406, 32398, 32411, 32412, 32568, 32570, 32581, 32588,
        32589, 32590, 32592, 32593, 32597, 32596, 32600, 32607, 32608, 32616, 32617, 32615, 32632, 32642, 32646, 32643,
        32648, 32647, 32652, 32660, 32670, 32669, 32666, 32675, 32687, 32690, 32697, 32686, 32694, 32696, 35697, 32709,
        32710, 32714, 32725, 32724, 32737, 32742, 32745, 32755, 32761, 39132, 32774, 32772, 32779, 32786, 32792, 32793,
        32796, 32801, 32808, 32831, 32827, 32842, 32838, 32850, 32856, 32858, 32863, 32866, 32872, 32883, 32882, 32880,
        32886, 32889, 32893, 32895, 32900, 32902, 32901, 32923, 32915, 32922, 32941, 20880, 32940, 32987, 32997, 32985,
        32989, 32964, 32986, 32982, 33033, 33007, 33009, 33051, 33065, 33059, 33071, 33099
      >>,
      <<
        38539, 33094, 33086, 33107, 33105, 33020, 33137, 33134, 33125, 33126, 33140, 33155, 33160, 33162, 33152, 33154,
        33184, 33173, 33188, 33187, 33119, 33171, 33193, 33200, 33205, 33214, 33208, 33213, 33216, 33218, 33210, 33225,
        33229, 33233, 33241, 33240, 33224, 33242, 33247, 33248, 33255, 33274, 33275, 33278, 33281, 33282, 33285, 33287,
        33290, 33293, 33296, 33302, 33321, 33323, 33336, 33331, 33344, 33369, 33368, 33373, 33370, 33375, 33380, 33378,
        33384, 33386, 33387, 33326, 33393, 33399, 33400, 33406, 33421, 33426, 33451, 33439, 33467, 33452, 33505, 33507,
        33503, 33490, 33524, 33523, 33530, 33683, 33539, 33531, 33529, 33502, 33542, 33500, 33545, 33497, 33589, 33588,
        33558, 33586, 33585, 33600, 33593, 33616, 33605, 33583, 33579, 33559, 33560, 33669, 33690, 33706, 33695, 33698,
        33686, 33571, 33678, 33671, 33674, 33660, 33717, 33651, 33653, 33696, 33673, 33704, 33780, 33811, 33771, 33742,
        33789, 33795, 33752, 33803, 33729, 33783, 33799, 33760, 33778, 33805, 33826, 33824, 33725, 33848, 34054, 33787,
        33901, 33834, 33852, 34138, 33924, 33911, 33899, 33965, 33902, 33922, 33897, 33862, 33836, 33903, 33913, 33845,
        33994, 33890, 33977, 33983, 33951, 34009, 33997, 33979, 34010, 34000, 33985, 33990, 34006, 33953, 34081, 34047,
        34036, 34071, 34072, 34092, 34079, 34069, 34068, 34044, 34112, 34147, 34136, 34120
      >>,
      <<
        34113, 34306, 34123, 34133, 34176, 34212, 34184, 34193, 34186, 34216, 34157, 34196, 34203, 34282, 34183, 34204,
        34167, 34174, 34192, 34249, 34234, 34255, 34233, 34256, 34261, 34269, 34277, 34268, 34297, 34314, 34323, 34315,
        34302, 34298, 34310, 34338, 34330, 34352, 34367, 34381, 20053, 34388, 34399, 34407, 34417, 34451, 34467, 34473,
        34474, 34443, 34444, 34486, 34479, 34500, 34502, 34480, 34505, 34851, 34475, 34516, 34526, 34537, 34540, 34527,
        34523, 34543, 34578, 34566, 34568, 34560, 34563, 34555, 34577, 34569, 34573, 34553, 34570, 34612, 34623, 34615,
        34619, 34597, 34601, 34586, 34656, 34655, 34680, 34636, 34638, 34676, 34647, 34664, 34670, 34649, 34643, 34659,
        34666, 34821, 34722, 34719, 34690, 34735, 34763, 34749, 34752, 34768, 38614, 34731, 34756, 34739, 34759, 34758,
        34747, 34799, 34802, 34784, 34831, 34829, 34814, 34806, 34807, 34830, 34770, 34833, 34838, 34837, 34850, 34849,
        34865, 34870, 34873, 34855, 34875, 34884, 34882, 34898, 34905, 34910, 34914, 34923, 34945, 34942, 34974, 34933,
        34941, 34997, 34930, 34946, 34967, 34962, 34990, 34969, 34978, 34957, 34980, 34992, 35007, 34993, 35011, 35012,
        35028, 35032, 35033, 35037, 35065, 35074, 35068, 35060, 35048, 35058, 35076, 35084, 35082, 35091, 35139, 35102,
        35109, 35114, 35115, 35137, 35140, 35131, 35126, 35128, 35148, 35101, 35168, 35166
      >>,
      <<
        35174, 35172, 35181, 35178, 35183, 35188, 35191, 35198, 35203, 35208, 35210, 35219, 35224, 35233, 35241, 35238,
        35244, 35247, 35250, 35258, 35261, 35263, 35264, 35290, 35292, 35293, 35303, 35316, 35320, 35331, 35350, 35344,
        35340, 35355, 35357, 35365, 35382, 35393, 35419, 35410, 35398, 35400, 35452, 35437, 35436, 35426, 35461, 35458,
        35460, 35496, 35489, 35473, 35493, 35494, 35482, 35491, 35524, 35533, 35522, 35546, 35563, 35571, 35559, 35556,
        35569, 35604, 35552, 35554, 35575, 35550, 35547, 35596, 35591, 35610, 35553, 35606, 35600, 35607, 35616, 35635,
        38827, 35622, 35627, 35646, 35624, 35649, 35660, 35663, 35662, 35657, 35670, 35675, 35674, 35691, 35679, 35692,
        35695, 35700, 35709, 35712, 35724, 35726, 35730, 35731, 35734, 35737, 35738, 35898, 35905, 35903, 35912, 35916,
        35918, 35920, 35925, 35938, 35948, 35960, 35962, 35970, 35977, 35973, 35978, 35981, 35982, 35988, 35964, 35992,
        25117, 36013, 36010, 36029, 36018, 36019, 36014, 36022, 36040, 36033, 36068, 36067, 36058, 36093, 36090, 36091,
        36100, 36101, 36106, 36103, 36111, 36109, 36112, 40782, 36115, 36045, 36116, 36118, 36199, 36205, 36209, 36211,
        36225, 36249, 36290, 36286, 36282, 36303, 36314, 36310, 36300, 36315, 36299, 36330, 36331, 36319, 36323, 36348,
        36360, 36361, 36351, 36381, 36382, 36368, 36383, 36418, 36405, 36400, 36404, 36426
      >>,
      <<
        36423, 36425, 36428, 36432, 36424, 36441, 36452, 36448, 36394, 36451, 36437, 36470, 36466, 36476, 36481, 36487,
        36485, 36484, 36491, 36490, 36499, 36497, 36500, 36505, 36522, 36513, 36524, 36528, 36550, 36529, 36542, 36549,
        36552, 36555, 36571, 36579, 36604, 36603, 36587, 36606, 36618, 36613, 36629, 36626, 36633, 36627, 36636, 36639,
        36635, 36620, 36646, 36659, 36667, 36665, 36677, 36674, 36670, 36684, 36681, 36678, 36686, 36695, 36700, 36706,
        36707, 36708, 36764, 36767, 36771, 36781, 36783, 36791, 36826, 36837, 36834, 36842, 36847, 36999, 36852, 36869,
        36857, 36858, 36881, 36885, 36897, 36877, 36894, 36886, 36875, 36903, 36918, 36917, 36921, 36856, 36943, 36944,
        36945, 36946, 36878, 36937, 36926, 36950, 36952, 36958, 36968, 36975, 36982, 38568, 36978, 36994, 36989, 36993,
        36992, 37002, 37001, 37007, 37032, 37039, 37041, 37045, 37090, 37092, 25160, 37083, 37122, 37138, 37145, 37170,
        37168, 37194, 37206, 37208, 37219, 37221, 37225, 37235, 37234, 37259, 37257, 37250, 37282, 37291, 37295, 37290,
        37301, 37300, 37306, 37312, 37313, 37321, 37323, 37328, 37334, 37343, 37345, 37339, 37372, 37365, 37366, 37406,
        37375, 37396, 37420, 37397, 37393, 37470, 37463, 37445, 37449, 37476, 37448, 37525, 37439, 37451, 37456, 37532,
        37526, 37523, 37531, 37466, 37583, 37561, 37559, 37609, 37647, 37626, 37700, 37678
      >>,
      <<
        37657, 37666, 37658, 37667, 37690, 37685, 37691, 37724, 37728, 37756, 37742, 37718, 37808, 37804, 37805, 37780,
        37817, 37846, 37847, 37864, 37861, 37848, 37827, 37853, 37840, 37832, 37860, 37914, 37908, 37907, 37891, 37895,
        37904, 37942, 37931, 37941, 37921, 37946, 37953, 37970, 37956, 37979, 37984, 37986, 37982, 37994, 37417, 38000,
        38005, 38007, 38013, 37978, 38012, 38014, 38017, 38015, 38274, 38279, 38282, 38292, 38294, 38296, 38297, 38304,
        38312, 38311, 38317, 38332, 38331, 38329, 38334, 38346, 28662, 38339, 38349, 38348, 38357, 38356, 38358, 38364,
        38369, 38373, 38370, 38433, 38440, 38446, 38447, 38466, 38476, 38479, 38475, 38519, 38492, 38494, 38493, 38495,
        38502, 38514, 38508, 38541, 38552, 38549, 38551, 38570, 38567, 38577, 38578, 38576, 38580, 38582, 38584, 38585,
        38606, 38603, 38601, 38605, 35149, 38620, 38669, 38613, 38649, 38660, 38662, 38664, 38675, 38670, 38673, 38671,
        38678, 38681, 38692, 38698, 38704, 38713, 38717, 38718, 38724, 38726, 38728, 38722, 38729, 38748, 38752, 38756,
        38758, 38760, 21202, 38763, 38769, 38777, 38789, 38780, 38785, 38778, 38790, 38795, 38799, 38800, 38812, 38824,
        38822, 38819, 38835, 38836, 38851, 38854, 38856, 38859, 38876, 38893, 40783, 38898, 31455, 38902, 38901, 38927,
        38924, 38968, 38948, 38945, 38967, 38973, 38982, 38991, 38987, 39019, 39023, 39024
      >>,
      <<
        39025, 39028, 39027, 39082, 39087, 39089, 39094, 39108, 39107, 39110, 39145, 39147, 39171, 39177, 39186, 39188,
        39192, 39201, 39197, 39198, 39204, 39200, 39212, 39214, 39229, 39230, 39234, 39241, 39237, 39248, 39243, 39249,
        39250, 39244, 39253, 39319, 39320, 39333, 39341, 39342, 39356, 39391, 39387, 39389, 39384, 39377, 39405, 39406,
        39409, 39410, 39419, 39416, 39425, 39439, 39429, 39394, 39449, 39467, 39479, 39493, 39490, 39488, 39491, 39486,
        39509, 39501, 39515, 39511, 39519, 39522, 39525, 39524, 39529, 39531, 39530, 39597, 39600, 39612, 39616, 39631,
        39633, 39635, 39636, 39646, 39647, 39650, 39651, 39654, 39663, 39659, 39662, 39668, 39665, 39671, 39675, 39686,
        39704, 39706, 39711, 39714, 39715, 39717, 39719, 39720, 39721, 39722, 39726, 39727, 39730, 39748, 39747, 39759,
        39757, 39758, 39761, 39768, 39796, 39827, 39811, 39825, 39830, 39831, 39839, 39840, 39848, 39860, 39872, 39882,
        39865, 39878, 39887, 39889, 39890, 39907, 39906, 39908, 39892, 39905, 39994, 39922, 39921, 39920, 39957, 39956,
        39945, 39955, 39948, 39942, 39944, 39954, 39946, 39940, 39982, 39963, 39973, 39972, 39969, 39984, 40007, 39986,
        40006, 39998, 40026, 40032, 40039, 40054, 40056, 40167, 40172, 40176, 40201, 40200, 40171, 40195, 40198, 40234,
        40230, 40367, 40227, 40223, 40260, 40213, 40210, 40257, 40255, 40254, 40262, 40264
      >>,
      <<
        40285, 40286, 40292, 40273, 40272, 40281, 40306, 40329, 40327, 40363, 40303, 40314, 40346, 40356, 40361, 40370,
        40388, 40385, 40379, 40376, 40378, 40390, 40399, 40386, 40409, 40403, 40440, 40422, 40429, 40431, 40445, 40474,
        40475, 40478, 40565, 40569, 40573, 40577, 40584, 40587, 40588, 40594, 40597, 40593, 40605, 40613, 40617, 40632,
        40618, 40621, 38753, 40652, 40654, 40655, 40656, 40660, 40668, 40670, 40669, 40672, 40677, 40680, 40687, 40692,
        40694, 40695, 40697, 40699, 40700, 40701, 40711, 40712, 30391, 40725, 40737, 40748, 40766, 40778, 40786, 40788,
        40803, 40799, 40800, 40801, 40806, 40807, 40812, 40810, 40823, 40818, 40822, 40853, 40860, 40864, 22575, 27079,
        36953, 29796, 20956, 29081, 0, 0, 0, 0, 0, 0, 0, 0, 0, 0, 0, 0,
        0, 0, 0, 0, 0, 0, 0, 0, 0, 0, 0, 0, 0, 0, 0, 0,
        0, 0, 0, 0, 0, 0, 0, 0, 0, 0, 0, 0, 0, 0, 0, 0,
        0, 0, 0, 0, 0, 0, 0, 0, 0, 0, 0, 0, 0, 0, 0, 0,
        0, 0, 0, 0, 0, 0, 0, 0, 0, 0, 0, 0, 0, 0, 0, 0,
        0, 0, 0, 0, 0, 0, 0, 0, 0, 0, 0, 0
      >>,
      [cell \in 1..188 |-> 0],
      [cell \in 1..188 |-> 0],
      <<
        32394, 35100, 37704, 37512, 34012, 20425, 28859, 26161, 26824, 37625, 26363, 24389, 20008, 20193, 20220, 20224,
        20227, 20281, 20310, 20370, 20362, 20378, 20372, 20429, 20544, 20514, 20479, 20510, 20550, 20592, 20546, 20628,
        20724, 20696, 20810, 20836, 20893, 20926, 20972, 21013, 21148, 21158, 21184, 21211, 21248, 21255, 21284, 21362,
        21395, 21426, 21469, 64014, 21660, 21642, 21673, 21759, 21894, 22361, 22373, 22444, 22472, 22471, 64015, 64016,
        22686, 22706, 22795, 22867, 22875, 22877, 22883, 22948, 22970, 23382, 23488, 29999, 23512, 23532, 23582, 23718,
        23738, 23797, 23847, 23891, 64017, 23874, 23917, 23992, 23993, 24016, 24353, 24372, 24423, 24503, 24542, 24669,
        24709, 24714, 24798, 24789, 24864, 24818, 24849, 24887, 24880, 24984, 25107, 25254, 25589, 25696, 25757, 25806,
        25934, 26112, 26133, 26171, 26121, 26158, 26142, 26148, 26213, 26199, 26201, 64018, 26227, 26265, 26272, 26290,
        26303, 26362, 26382, 63785, 26470, 26555, 26706, 26560, 26625, 26692, 26831, 64019, 26984, 64020, 27032, 27106,
        27184, 27243, 27206, 27251, 27262, 27362, 27364, 27606, 27711, 27740, 27782, 27759, 27866, 27908, 28039, 28015,
        28054, 28076, 28111, 28152, 28146, 28156, 28217, 28252, 28199, 28220, 28351, 28552, 28597, 28661, 28677, 28679,
        28712, 28805, 28843, 28943, 28932, 29020, 28998, 28999, 64021, 29121, 29182, 29361
      >>,
      <<
        29374, 29476, 64022, 29559, 29629, 29641, 29654, 29667, 29650, 29703, 29685, 29734, 29738, 29737, 29742, 29794,
        29833, 29855, 29953, 30063, 30338, 30364, 30366, 30363, 30374, 64023, 30534, 21167, 30753, 30798, 30820, 30842,
        31024, 64024, 64025, 64026, 31124, 64027, 31131, 31441, 31463, 64028, 31467, 31646, 64029, 32072, 32092, 32183,
        32160, 32214, 32338, 32583, 32673, 64030, 33537, 33634, 33663, 33735, 33782, 33864, 33972, 34131, 34137, 34155,
        64031, 34224, 64032, 64033, 34823, 35061, 35346, 35383, 35449, 35495, 35518, 35551, 64034, 35574, 35667, 35711,
        36080, 36084, 36114, 36214, 64035, 36559, 64036, 64037, 36967, 37086, 64038, 37141, 37159, 37338, 37335, 37342,
        37357, 37358, 37348, 37349, 37382, 37392, 37386, 37434, 37440, 37436, 37454, 37465, 37457, 37433, 37479, 37543,
        37495, 37496, 37607, 37591, 37593, 37584, 64039, 37589, 37600, 37587, 37669, 37665, 37627, 64040, 37662, 37631,
        37661, 37634, 37744, 37719, 37796, 37830, 37854, 37880, 37937, 37957, 37960, 38290, 63964, 64041, 38557, 38575,
        38707, 38715, 38723, 38733, 38735, 38737, 38741, 38999, 39013, 64042, 64043, 39207, 64044, 39326, 39502, 39641,
        39644, 39797, 39794, 39823, 39857, 39867, 39936, 40304, 40299, 64045, 40473, 40657, 0, 0, 8560, 8561,
        8562, 8563, 8564, 8565, 8566, 8567, 8568, 8569, 65506, 65508, 65287, 65282
      >>,
      [cell \in 1..188 |-> 0],
      [cell \in 1..188 |-> 0],
      [cell \in 1..188 |-> 0],
      [cell \in 1..188 |-> 0],
      [cell \in 1..188 |-> 0],
      [cell \in 1..188 |-> 0],
      [cell \in 1..188 |-> 0],
      [cell \in 1..188 |-> 0],
      [cell \in 1..188 |-> 0],
      [cell \in 1..188 |-> 0],
      [cell \in 1..188 |-> 0],
      <<
        8560, 8561, 8562, 8563, 8564, 8565, 8566, 8567, 8568, 8569, 8544, 8545, 8546, 8547, 8548, 8549,
        8550, 8551, 8552, 8553, 65506, 65508, 65287, 65282, 12849, 8470, 8481, 8757, 32394, 35100, 37704, 37512,
        34012, 20425, 28859, 26161, 26824, 37625, 26363, 24389, 20008, 20193, 20220, 20224, 20227, 20281, 20310, 20370,
        20362, 20378, 20372, 20429, 20544, 20514, 20479, 20510, 20550, 20592, 20546, 20628, 20724, 20696, 20810, 20836,
        20893, 20926, 20972, 21013, 21148, 21158, 21184, 21211, 21248, 21255, 21284, 21362, 21395, 21426, 21469, 64014,
        21660, 21642, 21673, 21759, 21894, 22361, 22373, 22444, 22472, 22471, 64015, 64016, 22686, 22706, 22795, 22867,
        22875, 22877, 22883, 22948, 22970, 23382, 23488, 29999, 23512, 23532, 23582, 23718, 23738, 23797, 23847, 23891,
        64017, 23874, 23917, 23992, 23993, 24016, 24353, 24372, 24423, 24503, 24542, 24669, 24709, 24714, 24798, 24789,
        24864, 24818, 24849, 24887, 24880, 24984, 25107, 25254, 25589, 25696, 25757, 25806, 25934, 26112, 26133, 26171,
        26121, 26158, 26142, 26148, 26213, 26199, 26201, 64018, 26227, 26265, 26272, 26290, 26303, 26362, 26382, 63785,
        26470, 26555, 26706, 26560, 26625, 26692, 26831, 64019, 26984, 64020, 27032, 27106, 27184, 27243, 27206, 27251,
        27262, 27362, 27364, 27606, 27711, 27740, 27782, 27759, 27866, 27908, 28039, 28015
      >>,
      <<
        28054, 28076, 28111, 28152, 28146, 28156, 28217, 28252, 28199, 28220, 28351, 28552, 28597, 28661, 28677, 28679,
        28712, 28805, 28843, 28943, 28932, 29020, 28998, 28999, 64021, 29121, 29182, 29361, 29374, 29476, 64022, 29559,
        29629, 29641, 29654, 29667, 29650, 29703, 29685, 29734, 29738, 29737, 29742, 29794, 29833, 29855, 29953, 30063,
        30338, 30364, 30366, 30363, 30374, 64023, 30534, 21167, 30753, 30798, 30820, 30842, 31024, 64024, 64025, 64026,
        31124, 64027, 31131, 31441, 31463, 64028, 31467, 31646, 64029, 32072, 32092, 32183, 32160, 32214, 32338, 32583,
        32673, 64030, 33537, 33634, 33663, 33735, 33782, 33864, 33972, 34131, 34137, 34155, 64031, 34224, 64032, 64033,
        34823, 35061, 35346, 35383, 35449, 35495, 35518, 35551, 64034, 35574, 35667, 35711, 36080, 36084, 36114, 36214,
        64035, 36559, 64036, 64037, 36967, 37086, 64038, 37141, 37159, 37338, 37335, 37342, 37357, 37358, 37348, 37349,
        37382, 37392, 37386, 37434, 37440, 37436, 37454, 37465, 37457, 37433, 37479, 37543, 37495, 37496, 37607, 37591,
        37593, 37584, 64039, 37589, 37600, 37587, 37669, 37665, 37627, 64040, 37662, 37631, 37661, 37634, 37744, 37719,
        37796, 37830, 37854, 37880, 37937, 37957, 37960, 38290, 63964, 64041, 38557, 38575, 38707, 38715, 38723, 38733,
        38735, 38737, 38741, 38999, 39013, 64042, 64043, 39207, 64044, 39326, 39502, 39641
      >>,
      <<
        39644, 39797, 39794, 39823, 39857, 39867, 39936, 40304, 40299, 64045, 40473, 40657, 0, 0, 0, 0,
        0, 0, 0, 0, 0, 0, 0, 0, 0, 0, 0, 0, 0, 0, 0, 0,
        0, 0, 0, 0, 0, 0, 0, 0, 0, 0, 0, 0, 0, 0, 0, 0,
        0, 0, 0, 0, 0, 0, 0, 0, 0, 0, 0, 0, 0, 0, 0, 0,
        0, 0, 0, 0, 0, 0, 0, 0, 0, 0, 0, 0, 0, 0, 0, 0,
        0, 0, 0, 0, 0, 0, 0, 0, 0, 0, 0, 0, 0, 0, 0, 0,
        0, 0, 0, 0, 0, 0, 0, 0, 0, 0, 0, 0, 0, 0, 0, 0,
        0, 0, 0, 0, 0, 0, 0, 0, 0, 0, 0, 0, 0, 0, 0, 0,
        0, 0, 0, 0, 0, 0, 0, 0, 0, 0, 0, 0, 0, 0, 0, 0,
        0, 0, 0, 0, 0, 0, 0, 0, 0, 0, 0, 0, 0, 0, 0, 0,
        0, 0, 0, 0, 0, 0, 0, 0, 0, 0, 0, 0, 0, 0, 0, 0,
        0, 0, 0, 0, 0, 0, 0, 0, 0, 0, 0, 0
      >>
    >>

\* The code point of the two-byte character lead, trail; 0 when the pair is
\* no character.  Pointers 8836 to 10715 are the user-defined characters,
\* decoded to the private use area from U+E000.
SjisPair(lead, trail) ==
    LET offset == IF trail < 127 THEN 64 ELSE 65
        lead_offset == IF lead < 160 THEN 129 ELSE 193
        pointer == (lead - lead_offset) * 188 + trail - offset
    IN  IF ~(trail \in 64..126 \/ trail \in 128..252) THEN 0
        ELSE IF pointer \in 8836..10715 THEN 57344 - 8836 + pointer
        ELSE Jis0208[(pointer \div 188) + 1][(pointer % 188) + 1]

\* The Shift_JIS decoder of the Encoding Standard: the code points of the
\* bytes v.  A byte up to 0x80 is
\* its own code point, 0xA1 to 0xDF are the half-width katakana from U+FF61,
\* 0x81 to 0x9F and 0xE0 to 0xFC lead a two-byte character; what cannot be
\* decoded becomes U+FFFD (65533), and an ASCII byte that follows a lead
\* byte without making a character with it is decoded again on its own.
RECURSIVE ShiftJisDecoder(_)
ShiftJisDecoder(v) ==
    IF v = <<>> THEN <<>>
    ELSE IF v[1] <= 128 THEN <<v[1]>> \o ShiftJisDecoder(Tail(v))
    ELSE IF v[1] \in 161..223 THEN <<65377 + v[1] - 161>> \o ShiftJisDecoder(Tail(v))
    ELSE IF ~(v[1] \in 129..159 \/ v[1] \in 224..252)
         THEN <<65533>> \o ShiftJisDecoder(Tail(v))
    ELSE IF Len(v) = 1 THEN <<65533>>
    ELSE IF SjisPair(v[1], v[2]) # 0
         THEN <<SjisPair(v[1], v[2])>> \o ShiftJisDecoder(Tail(Tail(v)))
    ELSE IF v[2] < 128 THEN <<65533>> \o ShiftJisDecoder(Tail(v))
    ELSE <<65533>> \o ShiftJisDecoder(Tail(Tail(v)))

\* The UTF-8 decoder of the Encoding Standard, which SHIFT_JIS.decode runs
\* on an array that starts with the UTF-8 byte order mark: the code points
\* of the bytes of v from the i-th on, with needed bytes of a character
\* outstanding, seen of them read, cp its bits so far, and lower and upper
\* the boundaries of the next byte.  A byte that cannot continue the
\* character ends it with U+FFFD and is decoded again as a first byte.
RECURSIVE Utf8Decode(_, _, _, _, _, _, _)
Utf8Decode(v, i, needed, seen, cp, lower, upper) ==
    IF i > Len(v) THEN (IF needed # 0 THEN <<65533>> ELSE <<>>)
    ELSE LET b == v[i] IN
         IF needed = 0
         THEN IF b <= 127 THEN <<b>> \o Utf8Decode(v, i + 1, 0, 0, 0, 128, 191)
              ELSE IF b \in 194..223
                   THEN Utf8Decode(v, i + 1, 1, 0, b % 32, 128, 191)
              ELSE IF b \in 224..239
                   THEN Utf8Decode(v, i + 1, 2, 0, b % 16,
                                   IF b = 224 THEN 160 ELSE 128,
                                   IF b = 237 THEN 159 ELSE 191)
              ELSE IF b \in 240..244
                   THEN Utf8Decode(v, i + 1, 3, 0, b % 8,
                                   IF b = 240 THEN 144 ELSE 128,
                                   IF b = 244 THEN 143 ELSE 191)
              ELSE <<65533>> \o Utf8Decode(v, i + 1, 0, 0, 0, 128, 191)
         ELSE IF b \notin lower..upper
              THEN <<65533>> \o Utf8Decode(v, i, 0, 0, 0, 128, 191)
         ELSE IF seen + 1 = needed
              THEN <<cp * 64 + (b % 64)>> \o Utf8Decode(v, i + 1, 0, 0, 0, 128, 191)
         ELSE Utf8Decode(v, i + 1, needed, seen + 1, cp * 64 + (b % 64), 128, 191)

\* The UTF-16 decoder of the Encoding Standard, which SHIFT_JIS.decode runs
\* on an array that starts with a UTF-16 byte order mark: the code points
\* of the bytes of v from the i-th on, big-endian when be, after the lead
\* surrogate lead (0 for none).  A surrogate without its pair and a byte
\* without its pair become U+FFFD; the code unit that follows a lead
\* surrogate without being a trail surrogate is decoded again.
RECURSIVE Utf16Decode(_, _, _, _)
Utf16Decode(v, i, be, lead) ==
    IF i > Len(v) THEN (IF lead # 0 THEN <<65533>> ELSE <<>>)
    ELSE IF i = Len(v) THEN <<65533>>
    ELSE LET unit == IF be THEN v[i] * 256 + v[i + 1] ELSE v[i + 1] * 256 + v[i] IN
         IF lead # 0
         THEN IF unit \in 56320..57343
              THEN <<65536 + (lead - 55296) * 1024 + (unit - 56320)>>
                   \o Utf16Decode(v, i + 2, be, 0)
              ELSE <<65533>> \o Utf16Decode(v, i, be, 0)
         ELSE IF unit \in 55296..56319 THEN Utf16Decode(v, i + 2, be, unit)
         ELSE IF unit \in 56320..57343 THEN <<65533>> \o Utf16Decode(v, i + 2, be, 0)
         ELSE <<unit>> \o Utf16Decode(v, i + 2, be, 0)

\* SHIFT_JIS.decode(&v): decoding with byte order mark sniffing.  An array
\* that starts with EF BB BF is decoded as UTF-8, one that starts with FF FE
\* as UTF-16LE, one that starts with FE FF as UTF-16BE, each without its
\* mark; every other array is decoded as Shift_JIS.
ShiftJisDecode(v) ==
    IF Len(v) >= 3 /\ SubSeq(v, 1, 3) = <<239, 187, 191>>
    THEN Utf8Decode(v, 4, 0, 0, 0, 128, 191)
    ELSE IF Len(v) >= 2 /\ SubSeq(v, 1, 2) = <<255, 254>> THEN Utf16Decode(v, 3, FALSE, 0)
    ELSE IF Len(v) >= 2 /\ SubSeq(v, 1, 2) = <<254, 255>> THEN Utf16Decode(v, 3, TRUE, 0)
    ELSE ShiftJisDecoder(v)

\* The compatibility decompositions of Unicode 14 (the tables of the crate
\* unicode-normalization), each character that has one with its full
\* decomposition, by ascending code point.  The Hangul syllables, decomposed
\* by arithmetic, are not listed.
Decompositions ==
    <<
      <<160, <<32>>>>, <<168, <<32, 776>>>>, <<170, <<97>>>>, <<175, <<32, 772>>>>, <<178, <<50>>>>,
      <<179, <<51>>>>, <<180, <<32, 769>>>>, <<181, <<956>>>>, <<184, <<32, 807>>>>, <<185, <<49>>>>,
      <<186, <<111>>>>, <<188, <<49, 8260, 52>>>>, <<189, <<49, 8260, 50>>>>, <<190, <<51, 8260, 52>>>>,
      <<192, <<65, 768>>>>, <<193, <<65, 769>>>>, <<194, <<65, 770>>>>, <<195, <<65, 771>>>>,
      <<196, <<65, 776>>>>, <<197, <<65, 778>>>>, <<199, <<67, 807>>>>, <<200, <<69, 768>>>>,
      <<201, <<69, 769>>>>, <<202, <<69, 770>>>>, <<203, <<69, 776>>>>, <<204, <<73, 768>>>>,
      <<205, <<73, 769>>>>, <<206, <<73, 770>>>>, <<207, <<73, 776>>>>, <<209, <<78, 771>>>>,
      <<210, <<79, 768>>>>, <<211, <<79, 769>>>>, <<212, <<79, 770>>>>, <<213, <<79, 771>>>>,
      <<214, <<79, 776>>>>, <<217, <<85, 768>>>>, <<218, <<85, 769>>>>, <<219, <<85, 770>>>>,
      <<220, <<85, 776>>>>, <<221, <<89, 769>>>>, <<224, <<97, 768>>>>, <<225, <<97, 769>>>>,
      <<226, <<97, 770>>>>, <<227, <<97, 771>>>>, <<228, <<97, 776>>>>, <<229, <<97, 778>>>>,
      <<231, <<99, 807>>>>, <<232, <<101, 768>>>>, <<233, <<101, 769>>>>, <<234, <<101, 770>>>>,
      <<235, <<101, 776>>>>, <<236, <<105, 768>>>>, <<237, <<105, 769>>>>, <<238, <<105, 770>>>>,
      <<239, <<105, 776>>>>, <<241, <<110, 771>>>>, <<242, <<111, 768>>>>, <<243, <<111, 769>>>>,
      <<244, <<111, 770>>>>, <<245, <<111, 771>>>>, <<246, <<111, 776>>>>, <<249, <<117, 768>>>>,
      <<250, <<117, 769>>>>, <<251, <<117, 770>>>>, <<252, <<117, 776>>>>, <<253, <<121, 769>>>>,
      <<255, <<121, 776>>>>, <<256, <<65, 772>>>>, <<257, <<97, 772>>>>, <<258, <<65, 774>>>>,
      <<259, <<97, 774>>>>, <<260, <<65, 808>>>>, <<261, <<97, 808>>>>, <<262, <<67, 769>>>>,
      <<263, <<99, 769>>>>, <<264, <<67, 770>>>>, <<265, <<99, 770>>>>, <<266, <<67, 775>>>>,
      <<267, <<99, 775>>>>, <<268, <<67, 780>>>>, <<269, <<99, 780>>>>, <<270, <<68, 780>>>>,
      <<271, <<100, 780>>>>, <<274, <<69, 772>>>>, <<275, <<101, 772>>>>, <<276, <<69, 774>>>>,
      <<277, <<101, 774>>>>, <<278, <<69, 775>>>>, <<279, <<101, 775>>>>, <<280, <<69, 808>>>>,
      <<281, <<101, 808>>>>, <<282, <<69, 780>>>>, <<283, <<101, 780>>>>, <<284, <<71, 770>>>>,
      <<285, <<103, 770>>>>, <<286, <<71, 774>>>>, <<287, <<103, 774>>>>, <<288, <<71, 775>>>>,
      <<289, <<103, 775>>>>, <<290, <<71, 807>>>>, <<291, <<103, 807>>>>, <<292, <<72, 770>>>>,
      <<293, <<104, 770>>>>, <<296, <<73, 771>>>>, <<297, <<105, 771>>>>, <<298, <<73, 772>>>>,
      <<299, <<105, 772>>>>, <<300, <<73, 774>>>>, <<301, <<105, 774>>>>, <<302, <<73, 808>>>>,
      <<303, <<105, 808>>>>, <<304, <<73, 775>>>>, <<306, <<73, 74>>>>, <<307, <<105, 106>>>>,
      <<308, <<74, 770>>>>, <<309, <<106, 770>>>>, <<310, <<75, 807>>>>, <<311, <<107, 807>>>>,
      <<313, <<76, 769>>>>, <<314, <<108, 769>>>>, <<315, <<76, 807>>>>, <<316, <<108, 807>>>>,
      <<317, <<76, 780>>>>, <<318, <<108, 780>>>>, <<319, <<76, 183>>>>, <<320, <<108, 183>>>>,
      <<323, <<78, 769>>>>, <<324, <<110, 769>>>>, <<325, <<78, 807>>>>, <<326, <<110, 807>>>>,
      <<327, <<78, 780>>>>, <<328, <<110, 780>>>>, <<329, <<700, 110>>>>, <<332, <<79, 772>>>>,
      <<333, <<111, 772>>>>, <<334, <<79, 774>>>>, <<335, <<111, 774>>>>, <<336, <<79, 779>>>>,
      <<337, <<111, 779>>>>, <<340, <<82, 769>>>>, <<341, <<114, 769>>>>, <<342, <<82, 807>>>>,
      <<343, <<114, 807>>>>, <<344, <<82, 780>>>>, <<345, <<114, 780>>>>, <<346, <<83, 769>>>>,
      <<347, <<115, 769>>>>, <<348, <<83, 770>>>>, <<349, <<115, 770>>>>, <<350, <<83, 807>>>>,
      <<351, <<115, 807>>>>, <<352, <<83, 780>>>>, <<353, <<115, 780>>>>, <<354, <<84, 807>>>>,
      <<355, <<116, 807>>>>, <<356, <<84, 780>>>>, <<357, <<116, 780>>>>, <<360, <<85, 771>>>>,
      <<361, <<117, 771>>>>, <<362, <<85, 772>>>>, <<363, <<117, 772>>>>, <<364, <<85, 774>>>>,
      <<365, <<117, 774>>>>, <<366, <<85, 778>>>>, <<367, <<117, 778>>>>, <<368, <<85, 779>>>>,
      <<369, <<117, 779>>>>, <<370, <<85, 808>>>>, <<371, <<117, 808>>>>, <<372, <<87, 770>>>>,
      <<373, <<119, 770>>>>, <<374, <<89, 770>>>>, <<375, <<121, 770>>>>, <<376, <<89, 776>>>>,
      <<377, <<90, 769>>>>, <<378, <<122, 769>>>>, <<379, <<90, 775>>>>, <<380, <<122, 775>>>>,
      <<381, <<90, 780>>>>, <<382, <<122, 780>>>>, <<383, <<115>>>>, <<416, <<79, 795>>>>,
      <<417, <<111, 795>>>>, <<431, <<85, 795>>>>, <<432, <<117, 795>>>>, <<452, <<68, 90, 780>>>>,
      <<453, <<68, 122, 780>>>>, <<454, <<100, 122, 780>>>>, <<455, <<76, 74>>>>, <<456, <<76, 106>>>>,
      <<457, <<108, 106>>>>, <<458, <<78, 74>>>>, <<459, <<78, 106>>>>, <<460, <<110, 106>>>>,
      <<461, <<65, 780>>>>, <<462, <<97, 780>>>>, <<463, <<73, 780>>>>, <<464, <<105, 780>>>>,
      <<465, <<79, 780>>>>, <<466, <<111, 780>>>>, <<467, <<85, 780>>>>, <<468, <<117, 780>>>>,
      <<469, <<85, 776, 772>>>>, <<470, <<117, 776, 772>>>>, <<471, <<85, 776, 769>>>>,
      <<472, <<117, 776, 769>>>>, <<473, <<85, 776, 780>>>>, <<474, <<117, 776, 780>>>>,
      <<475, <<85, 776, 768>>>>, <<476, <<117, 776, 768>>>>, <<478, <<65, 776, 772>>>>,
      <<479, <<97, 776, 772>>>>, <<480, <<65, 775, 772>>>>, <<481, <<97, 775, 772>>>>, <<482, <<198, 772>>>>,
      <<483, <<230, 772>>>>, <<486, <<71, 780>>>>, <<487, <<103, 780>>>>, <<488, <<75, 780>>>>,
      <<489, <<107, 780>>>>, <<490, <<79, 808>>>>, <<491, <<111, 808>>>>, <<492, <<79, 808, 772>>>>,
      <<493, <<111, 808, 772>>>>, <<494, <<439, 780>>>>, <<495, <<658, 780>>>>, <<496, <<106, 780>>>>,
      <<497, <<68, 90>>>>, <<498, <<68, 122>>>>, <<499, <<100, 122>>>>, <<500, <<71, 769>>>>,
      <<501, <<103, 769>>>>, <<504, <<78, 768>>>>, <<505, <<110, 768>>>>, <<506, <<65, 778, 769>>>>,
      <<507, <<97, 778, 769>>>>, <<508, <<198, 769>>>>, <<509, <<230, 769>>>>, <<510, <<216, 769>>>>,
      <<511, <<248, 769>>>>, <<512, <<65, 783>>>>, <<513, <<97, 783>>>>, <<514, <<65, 785>>>>,
      <<515, <<97, 785>>>>, <<516, <<69, 783>>>>, <<517, <<101, 783>>>>, <<518, <<69, 785>>>>,
      <<519, <<101, 785>>>>, <<520, <<73, 783>>>>, <<521, <<105, 783>>>>, <<522, <<73, 785>>>>,
      <<523, <<105, 785>>>>, <<524, <<79, 783>>>>, <<525, <<111, 783>>>>, <<526, <<79, 785>>>>,
      <<527, <<111, 785>>>>, <<528, <<82, 783>>>>, <<529, <<114, 783>>>>, <<530, <<82, 785>>>>,
      <<531, <<114, 785>>>>, <<532, <<85, 783>>>>, <<533, <<117, 783>>>>, <<534, <<85, 785>>>>,
      <<535, <<117, 785>>>>, <<536, <<83, 806>>>>, <<537, <<115, 806>>>>, <<538, <<84, 806>>>>,
      <<539, <<116, 806>>>>, <<542, <<72, 780>>>>, <<543, <<104, 780>>>>, <<550, <<65, 775>>>>,
      <<551, <<97, 775>>>>, <<552, <<69, 807>>>>, <<553, <<101, 807>>>>, <<554, <<79, 776, 772>>>>,
      <<555, <<111, 776, 772>>>>, <<556, <<79, 771, 772>>>>, <<557, <<111, 771, 772>>>>,
      <<558, <<79, 775>>>>, <<559, <<111, 775>>>>, <<560, <<79, 775, 772>>>>, <<561, <<111, 775, 772>>>>,
      <<562, <<89, 772>>>>, <<563, <<121, 772>>>>, <<688, <<104>>>>, <<689, <<614>>>>, <<690, <<106>>>>,
      <<691, <<114>>>>, <<692, <<633>>>>, <<693, <<635>>>>, <<694, <<641>>>>, <<695, <<119>>>>,
      <<696, <<121>>>>, <<728, <<32, 774>>>>, <<729, <<32, 775>>>>, <<730, <<32, 778>>>>,
      <<731, <<32, 808>>>>, <<732, <<32, 771>>>>, <<733, <<32, 779>>>>, <<736, <<611>>>>, <<737, <<108>>>>,
      <<738, <<115>>>>, <<739, <<120>>>>, <<740, <<661>>>>, <<832, <<768>>>>, <<833, <<769>>>>,
      <<835, <<787>>>>, <<836, <<776, 769>>>>, <<884, <<697>>>>, <<890, <<32, 837>>>>, <<894, <<59>>>>,
      <<900, <<32, 769>>>>, <<901, <<32, 776, 769>>>>, <<902, <<913, 769>>>>, <<903, <<183>>>>,
      <<904, <<917, 769>>>>, <<905, <<919, 769>>>>, <<906, <<921, 769>>>>, <<908, <<927, 769>>>>,
      <<910, <<933, 769>>>>, <<911, <<937, 769>>>>, <<912, <<953, 776, 769>>>>, <<938, <<921, 776>>>>,
      <<939, <<933, 776>>>>, <<940, <<945, 769>>>>, <<941, <<949, 769>>>>, <<942, <<951, 769>>>>,
      <<943, <<953, 769>>>>, <<944, <<965, 776, 769>>>>, <<970, <<953, 776>>>>, <<971, <<965, 776>>>>,
      <<972, <<959, 769>>>>, <<973, <<965, 769>>>>, <<974, <<969, 769>>>>, <<976, <<946>>>>,
      <<977, <<952>>>>, <<978, <<933>>>>, <<979, <<933, 769>>>>, <<980, <<933, 776>>>>, <<981, <<966>>>>,
      <<982, <<960>>>>, <<1008, <<954>>>>, <<1009, <<961>>>>, <<1010, <<962>>>>, <<1012, <<920>>>>,
      <<1013, <<949>>>>, <<1017, <<931>>>>, <<1024, <<1045, 768>>>>, <<1025, <<1045, 776>>>>,
      <<1027, <<1043, 769>>>>, <<1031, <<1030, 776>>>>, <<1036, <<1050, 769>>>>, <<1037, <<1048, 768>>>>,
      <<1038, <<1059, 774>>>>, <<1049, <<1048, 774>>>>, <<1081, <<1080, 774>>>>, <<1104, <<1077, 768>>>>,
      <<1105, <<1077, 776>>>>, <<1107, <<1075, 769>>>>, <<1111, <<1110, 776>>>>, <<1116, <<1082, 769>>>>,
      <<1117, <<1080, 768>>>>, <<1118, <<1091, 774>>>>, <<1142, <<1140, 783>>>>, <<1143, <<1141, 783>>>>,
      <<1217, <<1046, 774>>>>, <<1218, <<1078, 774>>>>, <<1232, <<1040, 774>>>>, <<1233, <<1072, 774>>>>,
      <<1234, <<1040, 776>>>>, <<1235, <<1072, 776>>>>, <<1238, <<1045, 774>>>>, <<1239, <<1077, 774>>>>,
      <<1242, <<1240, 776>>>>, <<1243, <<1241, 776>>>>, <<1244, <<1046, 776>>>>, <<1245, <<1078, 776>>>>,
      <<1246, <<1047, 776>>>>, <<1247, <<1079, 776>>>>, <<1250, <<1048, 772>>>>, <<1251, <<1080, 772>>>>,
      <<1252, <<1048, 776>>>>, <<1253, <<1080, 776>>>>, <<1254, <<1054, 776>>>>, <<1255, <<1086, 776>>>>,
      <<1258, <<1256, 776>>>>, <<1259, <<1257, 776>>>>, <<1260, <<1069, 776>>>>, <<1261, <<1101, 776>>>>,
      <<1262, <<1059, 772>>>>, <<1263, <<1091, 772>>>>, <<1264, <<1059, 776>>>>, <<1265, <<1091, 776>>>>,
      <<1266, <<1059, 779>>>>, <<1267, <<1091, 779>>>>, <<1268, <<1063, 776>>>>, <<1269, <<1095, 776>>>>,
      <<1272, <<1067, 776>>>>, <<1273, <<1099, 776>>>>, <<1415, <<1381, 1410>>>>, <<1570, <<1575, 1619>>>>,
      <<1571, <<1575, 1620>>>>, <<1572, <<1608, 1620>>>>, <<1573, <<1575, 1621>>>>, <<1574, <<1610, 1620>>>>,
      <<1653, <<1575, 1652>>>>, <<1654, <<1608, 1652>>>>, <<1655, <<1735, 1652>>>>, <<1656, <<1610, 1652>>>>,
      <<1728, <<1749, 1620>>>>, <<1730, <<1729, 1620>>>>, <<1747, <<1746, 1620>>>>, <<2345, <<2344, 2364>>>>,
      <<2353, <<2352, 2364>>>>, <<2356, <<2355, 2364>>>>, <<2392, <<2325, 2364>>>>, <<2393, <<2326, 2364>>>>,
      <<2394, <<2327, 2364>>>>, <<2395, <<2332, 2364>>>>, <<2396, <<2337, 2364>>>>, <<2397, <<2338, 2364>>>>,
      <<2398, <<2347, 2364>>>>, <<2399, <<2351, 2364>>>>, <<2507, <<2503, 2494>>>>, <<2508, <<2503, 2519>>>>,
      <<2524, <<2465, 2492>>>>, <<2525, <<2466, 2492>>>>, <<2527, <<2479, 2492>>>>, <<2611, <<2610, 2620>>>>,
      <<2614, <<2616, 2620>>>>, <<2649, <<2582, 2620>>>>, <<2650, <<2583, 2620>>>>, <<2651, <<2588, 2620>>>>,
      <<2654, <<2603, 2620>>>>, <<2888, <<2887, 2902>>>>, <<2891, <<2887, 2878>>>>, <<2892, <<2887, 2903>>>>,
      <<2908, <<2849, 2876>>>>, <<2909, <<2850, 2876>>>>, <<2964, <<2962, 3031>>>>, <<3018, <<3014, 3006>>>>,
      <<3019, <<3015, 3006>>>>, <<3020, <<3014, 3031>>>>, <<3144, <<3142, 3158>>>>, <<3264, <<3263, 3285>>>>,
      <<3271, <<3270, 3285>>>>, <<3272, <<3270, 3286>>>>, <<3274, <<3270, 3266>>>>,
      <<3275, <<3270, 3266, 3285>>>>, <<3402, <<3398, 3390>>>>, <<3403, <<3399, 3390>>>>,
      <<3404, <<3398, 3415>>>>, <<3546, <<3545, 3530>>>>, <<3548, <<3545, 3535>>>>,
      <<3549, <<3545, 3535, 3530>>>>, <<3550, <<3545, 3551>>>>, <<3635, <<3661, 3634>>>>,
      <<3763, <<3789, 3762>>>>, <<3804, <<3755, 3737>>>>, <<3805, <<3755, 3745>>>>, <<3852, <<3851>>>>,
      <<3907, <<3906, 4023>>>>, <<3917, <<3916, 4023>>>>, <<3922, <<3921, 4023>>>>, <<3927, <<3926, 4023>>>>,
      <<3932, <<3931, 4023>>>>, <<3945, <<3904, 4021>>>>, <<3955, <<3953, 3954>>>>, <<3957, <<3953, 3956>>>>,
      <<3958, <<4018, 3968>>>>, <<3959, <<4018, 3953, 3968>>>>, <<3960, <<4019, 3968>>>>,
      <<3961, <<4019, 3953, 3968>>>>, <<3969, <<3953, 3968>>>>, <<3987, <<3986, 4023>>>>,
      <<3997, <<3996, 4023>>>>, <<4002, <<4001, 4023>>>>, <<4007, <<4006, 4023>>>>, <<4012, <<4011, 4023>>>>,
      <<4025, <<3984, 4021>>>>, <<4134, <<4133, 4142>>>>, <<4348, <<4316>>>>, <<6918, <<6917, 6965>>>>,
      <<6920, <<6919, 6965>>>>, <<6922, <<6921, 6965>>>>, <<6924, <<6923, 6965>>>>, <<6926, <<6925, 6965>>>>,
      <<6930, <<6929, 6965>>>>, <<6971, <<6970, 6965>>>>, <<6973, <<6972, 6965>>>>, <<6976, <<6974, 6965>>>>,
      <<6977, <<6975, 6965>>>>, <<6979, <<6978, 6965>>>>, <<7468, <<65>>>>, <<7469, <<198>>>>,
      <<7470, <<66>>>>, <<7472, <<68>>>>, <<7473, <<69>>>>, <<7474, <<398>>>>, <<7475, <<71>>>>,
      <<7476, <<72>>>>, <<7477, <<73>>>>, <<7478, <<74>>>>, <<7479, <<75>>>>, <<7480, <<76>>>>,
      <<7481, <<77>>>>, <<7482, <<78>>>>, <<7484, <<79>>>>, <<7485, <<546>>>>, <<7486, <<80>>>>,
      <<7487, <<82>>>>, <<7488, <<84>>>>, <<7489, <<85>>>>, <<7490, <<87>>>>, <<7491, <<97>>>>,
      <<7492, <<592>>>>, <<7493, <<593>>>>, <<7494, <<7426>>>>, <<7495, <<98>>>>, <<7496, <<100>>>>,
      <<7497, <<101>>>>, <<7498, <<601>>>>, <<7499, <<603>>>>, <<7500, <<604>>>>, <<7501, <<103>>>>,
      <<7503, <<107>>>>, <<7504, <<109>>>>, <<7505, <<331>>>>, <<7506, <<111>>>>, <<7507, <<596>>>>,
      <<7508, <<7446>>>>, <<7509, <<7447>>>>, <<7510, <<112>>>>, <<7511, <<116>>>>, <<7512, <<117>>>>,
      <<7513, <<7453>>>>, <<7514, <<623>>>>, <<7515, <<118>>>>, <<7516, <<7461>>>>, <<7517, <<946>>>>,
      <<7518, <<947>>>>, <<7519, <<948>>>>, <<7520, <<966>>>>, <<7521, <<967>>>>, <<7522, <<105>>>>,
      <<7523, <<114>>>>, <<7524, <<117>>>>, <<7525, <<118>>>>, <<7526, <<946>>>>, <<7527, <<947>>>>,
      <<7528, <<961>>>>, <<7529, <<966>>>>, <<7530, <<967>>>>, <<7544, <<1085>>>>, <<7579, <<594>>>>,
      <<7580, <<99>>>>, <<7581, <<597>>>>, <<7582, <<240>>>>, <<7583, <<604>>>>, <<7584, <<102>>>>,
      <<7585, <<607>>>>, <<7586, <<609>>>>, <<7587, <<613>>>>, <<7588, <<616>>>>, <<7589, <<617>>>>,
      <<7590, <<618>>>>, <<7591, <<7547>>>>, <<7592, <<669>>>>, <<7593, <<621>>>>, <<7594, <<7557>>>>,
      <<7595, <<671>>>>, <<7596, <<625>>>>, <<7597, <<624>>>>, <<7598, <<626>>>>, <<7599, <<627>>>>,
      <<7600, <<628>>>>, <<7601, <<629>>>>, <<7602, <<632>>>>, <<7603, <<642>>>>, <<7604, <<643>>>>,
      <<7605, <<427>>>>, <<7606, <<649>>>>, <<7607, <<650>>>>, <<7608, <<7452>>>>, <<7609, <<651>>>>,
      <<7610, <<652>>>>, <<7611, <<122>>>>, <<7612, <<656>>>>, <<7613, <<657>>>>, <<7614, <<658>>>>,
      <<7615, <<952>>>>, <<7680, <<65, 805>>>>, <<7681, <<97, 805>>>>, <<7682, <<66, 775>>>>,
      <<7683, <<98, 775>>>>, <<7684, <<66, 803>>>>, <<7685, <<98, 803>>>>, <<7686, <<66, 817>>>>,
      <<7687, <<98, 817>>>>, <<7688, <<67, 807, 769>>>>, <<7689, <<99, 807, 769>>>>, <<7690, <<68, 775>>>>,
      <<7691, <<100, 775>>>>, <<7692, <<68, 803>>>>, <<7693, <<100, 803>>>>, <<7694, <<68, 817>>>>,
      <<7695, <<100, 817>>>>, <<7696, <<68, 807>>>>, <<7697, <<100, 807>>>>, <<7698, <<68, 813>>>>,
      <<7699, <<100, 813>>>>, <<7700, <<69, 772, 768>>>>, <<7701, <<101, 772, 768>>>>,
      <<7702, <<69, 772, 769>>>>, <<7703, <<101, 772, 769>>>>, <<7704, <<69, 813>>>>, <<7705, <<101, 813>>>>,
      <<7706, <<69, 816>>>>, <<7707, <<101, 816>>>>, <<7708, <<69, 807, 774>>>>, <<7709, <<101, 807, 774>>>>,
      <<7710, <<70, 775>>>>, <<7711, <<102, 775>>>>, <<7712, <<71, 772>>>>, <<7713, <<103, 772>>>>,
      <<7714, <<72, 775>>>>, <<7715, <<104, 775>>>>, <<7716, <<72, 803>>>>, <<7717, <<104, 803>>>>,
      <<7718, <<72, 776>>>>, <<7719, <<104, 776>>>>, <<7720, <<72, 807>>>>, <<7721, <<104, 807>>>>,
      <<7722, <<72, 814>>>>, <<7723, <<104, 814>>>>, <<7724, <<73, 816>>>>, <<7725, <<105, 816>>>>,
      <<7726, <<73, 776, 769>>>>, <<7727, <<105, 776, 769>>>>, <<7728, <<75, 769>>>>, <<7729, <<107, 769>>>>,
      <<7730, <<75, 803>>>>, <<7731, <<107, 803>>>>, <<7732, <<75, 817>>>>, <<7733, <<107, 817>>>>,
      <<7734, <<76, 803>>>>, <<7735, <<108, 803>>>>, <<7736, <<76, 803, 772>>>>, <<7737, <<108, 803, 772>>>>,
      <<7738, <<76, 817>>>>, <<7739, <<108, 817>>>>, <<7740, <<76, 813>>>>, <<7741, <<108, 813>>>>,
      <<7742, <<77, 769>>>>, <<7743, <<109, 769>>>>, <<7744, <<77, 775>>>>, <<7745, <<109, 775>>>>,
      <<7746, <<77, 803>>>>, <<7747, <<109, 803>>>>, <<7748, <<78, 775>>>>, <<7749, <<110, 775>>>>,
      <<7750, <<78, 803>>>>, <<7751, <<110, 803>>>>, <<7752, <<78, 817>>>>, <<7753, <<110, 817>>>>,
      <<7754, <<78, 813>>>>, <<7755, <<110, 813>>>>, <<7756, <<79, 771, 769>>>>, <<7757, <<111, 771, 769>>>>,
      <<7758, <<79, 771, 776>>>>, <<7759, <<111, 771, 776>>>>, <<7760, <<79, 772, 768>>>>,
      <<7761, <<111, 772, 768>>>>, <<7762, <<79, 772, 769>>>>, <<7763, <<111, 772, 769>>>>,
      <<7764, <<80, 769>>>>, <<7765, <<112, 769>>>>, <<7766, <<80, 775>>>>, <<7767, <<112, 775>>>>,
      <<7768, <<82, 775>>>>, <<7769, <<114, 775>>>>, <<7770, <<82, 803>>>>, <<7771, <<114, 803>>>>,
      <<7772, <<82, 803, 772>>>>, <<7773, <<114, 803, 772>>>>, <<7774, <<82, 817>>>>, <<7775, <<114, 817>>>>,
      <<7776, <<83, 775>>>>, <<7777, <<115, 775>>>>, <<7778, <<83, 803>>>>, <<7779, <<115, 803>>>>,
      <<7780, <<83, 769, 775>>>>, <<7781, <<115, 769, 775>>>>, <<7782, <<83, 780, 775>>>>,
      <<7783, <<115, 780, 775>>>>, <<7784, <<83, 803, 775>>>>, <<7785, <<115, 803, 775>>>>,
      <<7786, <<84, 775>>>>, <<7787, <<116, 775>>>>, <<7788, <<84, 803>>>>, <<7789, <<116, 803>>>>,
      <<7790, <<84, 817>>>>, <<7791, <<116, 817>>>>, <<7792, <<84, 813>>>>, <<7793, <<116, 813>>>>,
      <<7794, <<85, 804>>>>, <<7795, <<117, 804>>>>, <<7796, <<85, 816>>>>, <<7797, <<117, 816>>>>,
      <<7798, <<85, 813>>>>, <<7799, <<117, 813>>>>, <<7800, <<85, 771, 769>>>>, <<7801, <<117, 771, 769>>>>,
      <<7802, <<85, 772, 776>>>>, <<7803, <<117, 772, 776>>>>, <<7804, <<86, 771>>>>, <<7805, <<118, 771>>>>,
      <<7806, <<86, 803>>>>, <<7807, <<118, 803>>>>, <<7808, <<87, 768>>>>, <<7809, <<119, 768>>>>,
      <<7810, <<87, 769>>>>, <<7811, <<119, 769>>>>, <<7812, <<87, 776>>>>, <<7813, <<119, 776>>>>,
      <<7814, <<87, 775>>>>, <<7815, <<119, 775>>>>, <<7816, <<87, 803>>>>, <<7817, <<119, 803>>>>,
      <<7818, <<88, 775>>>>, <<7819, <<120, 775>>>>, <<7820, <<88, 776>>>>, <<7821, <<120, 776>>>>,
      <<7822, <<89, 775>>>>, <<7823, <<121, 775>>>>, <<7824, <<90, 770>>>>, <<7825, <<122, 770>>>>,
      <<7826, <<90, 803>>>>, <<7827, <<122, 803>>>>, <<7828, <<90, 817>>>>, <<7829, <<122, 817>>>>,
      <<7830, <<104, 817>>>>, <<7831, <<116, 776>>>>, <<7832, <<119, 778>>>>, <<7833, <<121, 778>>>>,
      <<7834, <<97, 702>>>>, <<7835, <<115, 775>>>>, <<7840, <<65, 803>>>>, <<7841, <<97, 803>>>>,
      <<7842, <<65, 777>>>>, <<7843, <<97, 777>>>>, <<7844, <<65, 770, 769>>>>, <<7845, <<97, 770, 769>>>>,
      <<7846, <<65, 770, 768>>>>, <<7847, <<97, 770, 768>>>>, <<7848, <<65, 770, 777>>>>,
      <<7849, <<97, 770, 777>>>>, <<7850, <<65, 770, 771>>>>, <<7851, <<97, 770, 771>>>>,
      <<7852, <<65, 803, 770>>>>, <<7853, <<97, 803, 770>>>>, <<7854, <<65, 774, 769>>>>,
      <<7855, <<97, 774, 769>>>>, <<7856, <<65, 774, 768>>>>, <<7857, <<97, 774, 768>>>>,
      <<7858, <<65, 774, 777>>>>, <<7859, <<97, 774, 777>>>>, <<7860, <<65, 774, 771>>>>,
      <<7861, <<97, 774, 771>>>>, <<7862, <<65, 803, 774>>>>, <<7863, <<97, 803, 774>>>>,
      <<7864, <<69, 803>>>>, <<7865, <<101, 803>>>>, <<7866, <<69, 777>>>>, <<7867, <<101, 777>>>>,
      <<7868, <<69, 771>>>>, <<7869, <<101, 771>>>>, <<7870, <<69, 770, 769>>>>, <<7871, <<101, 770, 769>>>>,
      <<7872, <<69, 770, 768>>>>, <<7873, <<101, 770, 768>>>>, <<7874, <<69, 770, 777>>>>,
      <<7875, <<101, 770, 777>>>>, <<7876, <<69, 770, 771>>>>, <<7877, <<101, 770, 771>>>>,
      <<7878, <<69, 803, 770>>>>, <<7879, <<101, 803, 770>>>>, <<7880, <<73, 777>>>>, <<7881, <<105, 777>>>>,
      <<7882, <<73, 803>>>>, <<7883, <<105, 803>>>>, <<7884, <<79, 803>>>>, <<7885, <<111, 803>>>>,
      <<7886, <<79, 777>>>>, <<7887, <<111, 777>>>>, <<7888, <<79, 770, 769>>>>, <<7889, <<111, 770, 769>>>>,
      <<7890, <<79, 770, 768>>>>, <<7891, <<111, 770, 768>>>>, <<7892, <<79, 770, 777>>>>,
      <<7893, <<111, 770, 777>>>>, <<7894, <<79, 770, 771>>>>, <<7895, <<111, 770, 771>>>>,
      <<7896, <<79, 803, 770>>>>, <<7897, <<111, 803, 770>>>>, <<7898, <<79, 795, 769>>>>,
      <<7899, <<111, 795, 769>>>>, <<7900, <<79, 795, 768>>>>, <<7901, <<111, 795, 768>>>>,
      <<7902, <<79, 795, 777>>>>, <<7903, <<111, 795, 777>>>>, <<7904, <<79, 795, 771>>>>,
      <<7905, <<111, 795, 771>>>>, <<7906, <<79, 795, 803>>>>, <<7907, <<111, 795, 803>>>>,
      <<7908, <<85, 803>>>>, <<7909, <<117, 803>>>>, <<7910, <<85, 777>>>>, <<7911, <<117, 777>>>>,
      <<7912, <<85, 795, 769>>>>, <<7913, <<117, 795, 769>>>>, <<7914, <<85, 795, 768>>>>,
      <<7915, <<117, 795, 768>>>>, <<7916, <<85, 795, 777>>>>, <<7917, <<117, 795, 777>>>>,
      <<7918, <<85, 795, 771>>>>, <<7919, <<117, 795, 771>>>>, <<7920, <<85, 795, 803>>>>,
      <<7921, <<117, 795, 803>>>>, <<7922, <<89, 768>>>>, <<7923, <<121, 768>>>>, <<7924, <<89, 803>>>>,
      <<7925, <<121, 803>>>>, <<7926, <<89, 777>>>>, <<7927, <<121, 777>>>>, <<7928, <<89, 771>>>>,
      <<7929, <<121, 771>>>>, <<7936, <<945, 787>>>>, <<7937, <<945, 788>>>>, <<7938, <<945, 787, 768>>>>,
      <<7939, <<945, 788, 768>>>>, <<7940, <<945, 787, 769>>>>, <<7941, <<945, 788, 769>>>>,
      <<7942, <<945, 787, 834>>>>, <<7943, <<945, 788, 834>>>>, <<7944, <<913, 787>>>>,
      <<7945, <<913, 788>>>>, <<7946, <<913, 787, 768>>>>, <<7947, <<913, 788, 768>>>>,
      <<7948, <<913, 787, 769>>>>, <<7949, <<913, 788, 769>>>>, <<7950, <<913, 787, 834>>>>,
      <<7951, <<913, 788, 834>>>>, <<7952, <<949, 787>>>>, <<7953, <<949, 788>>>>,
      <<7954, <<949, 787, 768>>>>, <<7955, <<949, 788, 768>>>>, <<7956, <<949, 787, 769>>>>,
      <<7957, <<949, 788, 769>>>>, <<7960, <<917, 787>>>>, <<7961, <<917, 788>>>>,
      <<7962, <<917, 787, 768>>>>, <<7963, <<917, 788, 768>>>>, <<7964, <<917, 787, 769>>>>,
      <<7965, <<917, 788, 769>>>>, <<7968, <<951, 787>>>>, <<7969, <<951, 788>>>>,
      <<7970, <<951, 787, 768>>>>, <<7971, <<951, 788, 768>>>>, <<7972, <<951, 787, 769>>>>,
      <<7973, <<951, 788, 769>>>>, <<7974, <<951, 787, 834>>>>, <<7975, <<951, 788, 834>>>>,
      <<7976, <<919, 787>>>>, <<7977, <<919, 788>>>>, <<7978, <<919, 787, 768>>>>,
      <<7979, <<919, 788, 768>>>>, <<7980, <<919, 787, 769>>>>, <<7981, <<919, 788, 769>>>>,
      <<7982, <<919, 787, 834>>>>, <<7983, <<919, 788, 834>>>>, <<7984, <<953, 787>>>>,
      <<7985, <<953, 788>>>>, <<7986, <<953, 787, 768>>>>, <<7987, <<953, 788, 768>>>>,
      <<7988, <<953, 787, 769>>>>, <<7989, <<953, 788, 769>>>>, <<7990, <<953, 787, 834>>>>,
      <<7991, <<953, 788, 834>>>>, <<7992, <<921, 787>>>>, <<7993, <<921, 788>>>>,
      <<7994, <<921, 787, 768>>>>, <<7995, <<921, 788, 768>>>>, <<7996, <<921, 787, 769>>>>,
      <<7997, <<921, 788, 769>>>>, <<7998, <<921, 787, 834>>>>, <<7999, <<921, 788, 834>>>>,
      <<8000, <<959, 787>>>>, <<8001, <<959, 788>>>>, <<8002, <<959, 787, 768>>>>,
      <<8003, <<959, 788, 768>>>>, <<8004, <<959, 787, 769>>>>, <<8005, <<959, 788, 769>>>>,
      <<8008, <<927, 787>>>>, <<8009, <<927, 788>>>>, <<8010, <<927, 787, 768>>>>,
      <<8011, <<927, 788, 768>>>>, <<8012, <<927, 787, 769>>>>, <<8013, <<927, 788, 769>>>>,
      <<8016, <<965, 787>>>>, <<8017, <<965, 788>>>>, <<8018, <<965, 787, 768>>>>,
      <<8019, <<965, 788, 768>>>>, <<8020, <<965, 787, 769>>>>, <<8021, <<965, 788, 769>>>>,
      <<8022, <<965, 787, 834>>>>, <<8023, <<965, 788, 834>>>>, <<8025, <<933, 788>>>>,
      <<8027, <<933, 788, 768>>>>, <<8029, <<933, 788, 769>>>>, <<8031, <<933, 788, 834>>>>,
      <<8032, <<969, 787>>>>, <<8033, <<969, 788>>>>, <<8034, <<969, 787, 768>>>>,
      <<8035, <<969, 788, 768>>>>, <<8036, <<969, 787, 769>>>>, <<8037, <<969, 788, 769>>>>,
      <<8038, <<969, 787, 834>>>>, <<8039, <<969, 788, 834>>>>, <<8040, <<937, 787>>>>,
      <<8041, <<937, 788>>>>, <<8042, <<937, 787, 768>>>>, <<8043, <<937, 788, 768>>>>,
      <<8044, <<937, 787, 769>>>>, <<8045, <<937, 788, 769>>>>, <<8046, <<937, 787, 834>>>>,
      <<8047, <<937, 788, 834>>>>, <<8048, <<945, 768>>>>, <<8049, <<945, 769>>>>, <<8050, <<949, 768>>>>,
      <<8051, <<949, 769>>>>, <<8052, <<951, 768>>>>, <<8053, <<951, 769>>>>, <<8054, <<953, 768>>>>,
      <<8055, <<953, 769>>>>, <<8056, <<959, 768>>>>, <<8057, <<959, 769>>>>, <<8058, <<965, 768>>>>,
      <<8059, <<965, 769>>>>, <<8060, <<969, 768>>>>, <<8061, <<969, 769>>>>, <<8064, <<945, 787, 837>>>>,
      <<8065, <<945, 788, 837>>>>, <<8066, <<945, 787, 768, 837>>>>, <<8067, <<945, 788, 768, 837>>>>,
      <<8068, <<945, 787, 769, 837>>>>, <<8069, <<945, 788, 769, 837>>>>, <<8070, <<945, 787, 834, 837>>>>,
      <<8071, <<945, 788, 834, 837>>>>, <<8072, <<913, 787, 837>>>>, <<8073, <<913, 788, 837>>>>,
      <<8074, <<913, 787, 768, 837>>>>, <<8075, <<913, 788, 768, 837>>>>, <<8076, <<913, 787, 769, 837>>>>,
      <<8077, <<913, 788, 769, 837>>>>, <<8078, <<913, 787, 834, 837>>>>, <<8079, <<913, 788, 834, 837>>>>,
      <<8080, <<951, 787, 837>>>>, <<8081, <<951, 788, 837>>>>, <<8082, <<951, 787, 768, 837>>>>,
      <<8083, <<951, 788, 768, 837>>>>, <<8084, <<951, 787, 769, 837>>>>, <<8085, <<951, 788, 769, 837>>>>,
      <<8086, <<951, 787, 834, 837>>>>, <<8087, <<951, 788, 834, 837>>>>, <<8088, <<919, 787, 837>>>>,
      <<8089, <<919, 788, 837>>>>, <<8090, <<919, 787, 768, 837>>>>, <<8091, <<919, 788, 768, 837>>>>,
      <<8092, <<919, 787, 769, 837>>>>, <<8093, <<919, 788, 769, 837>>>>, <<8094, <<919, 787, 834, 837>>>>,
      <<8095, <<919, 788, 834, 837>>>>, <<8096, <<969, 787, 837>>>>, <<8097, <<969, 788, 837>>>>,
      <<8098, <<969, 787, 768, 837>>>>, <<8099, <<969, 788, 768, 837>>>>, <<8100, <<969, 787, 769, 837>>>>,
      <<8101, <<969, 788, 769, 837>>>>, <<8102, <<969, 787, 834, 837>>>>, <<8103, <<969, 788, 834, 837>>>>,
      <<8104, <<937, 787, 837>>>>, <<8105, <<937, 788, 837>>>>, <<8106, <<937, 787, 768, 837>>>>,
      <<8107, <<937, 788, 768, 837>>>>, <<8108, <<937, 787, 769, 837>>>>, <<8109, <<937, 788, 769, 837>>>>,
      <<8110, <<937, 787, 834, 837>>>>, <<8111, <<937, 788, 834, 837>>>>, <<8112, <<945, 774>>>>,
      <<8113, <<945, 772>>>>, <<8114, <<945, 768, 837>>>>, <<8115, <<945, 837>>>>,
      <<8116, <<945, 769, 837>>>>, <<8118, <<945, 834>>>>, <<8119, <<945, 834, 837>>>>,
      <<8120, <<913, 774>>>>, <<8121, <<913, 772>>>>, <<8122, <<913, 768>>>>, <<8123, <<913, 769>>>>,
      <<8124, <<913, 837>>>>, <<8125, <<32, 787>>>>, <<8126, <<953>>>>, <<8127, <<32, 787>>>>,
      <<8128, <<32, 834>>>>, <<8129, <<32, 776, 834>>>>, <<8130, <<951, 768, 837>>>>, <<8131, <<951, 837>>>>,
      <<8132, <<951, 769, 837>>>>, <<8134, <<951, 834>>>>, <<8135, <<951, 834, 837>>>>,
      <<8136, <<917, 768>>>>, <<8137, <<917, 769>>>>, <<8138, <<919, 768>>>>, <<8139, <<919, 769>>>>,
      <<8140, <<919, 837>>>>, <<8141, <<32, 787, 768>>>>, <<8142, <<32, 787, 769>>>>,
      <<8143, <<32, 787, 834>>>>, <<8144, <<953, 774>>>>, <<8145, <<953, 772>>>>,
      <<8146, <<953, 776, 768>>>>, <<8147, <<953, 776, 769>>>>, <<8150, <<953, 834>>>>,
      <<8151, <<953, 776, 834>>>>, <<8152, <<921, 774>>>>, <<8153, <<921, 772>>>>, <<8154, <<921, 768>>>>,
      <<8155, <<921, 769>>>>, <<8157, <<32, 788, 768>>>>, <<8158, <<32, 788, 769>>>>,
      <<8159, <<32, 788, 834>>>>, <<8160, <<965, 774>>>>, <<8161, <<965, 772>>>>,
      <<8162, <<965, 776, 768>>>>, <<8163, <<965, 776, 769>>>>, <<8164, <<961, 787>>>>,
      <<8165, <<961, 788>>>>, <<8166, <<965, 834>>>>, <<8167, <<965, 776, 834>>>>, <<8168, <<933, 774>>>>,
      <<8169, <<933, 772>>>>, <<8170, <<933, 768>>>>, <<8171, <<933, 769>>>>, <<8172, <<929, 788>>>>,
      <<8173, <<32, 776, 768>>>>, <<8174, <<32, 776, 769>>>>, <<8175, <<96>>>>, <<8178, <<969, 768, 837>>>>,
      <<8179, <<969, 837>>>>, <<8180, <<969, 769, 837>>>>, <<8182, <<969, 834>>>>,
      <<8183, <<969, 834, 837>>>>, <<8184, <<927, 768>>>>, <<8185, <<927, 769>>>>, <<8186, <<937, 768>>>>,
      <<8187, <<937, 769>>>>, <<8188, <<937, 837>>>>, <<8189, <<32, 769>>>>, <<8190, <<32, 788>>>>,
      <<8192, <<32>>>>, <<8193, <<32>>>>, <<8194, <<32>>>>, <<8195, <<32>>>>, <<8196, <<32>>>>,
      <<8197, <<32>>>>, <<8198, <<32>>>>, <<8199, <<32>>>>, <<8200, <<32>>>>, <<8201, <<32>>>>,
      <<8202, <<32>>>>, <<8209, <<8208>>>>, <<8215, <<32, 819>>>>, <<8228, <<46>>>>, <<8229, <<46, 46>>>>,
      <<8230, <<46, 46, 46>>>>, <<8239, <<32>>>>, <<8243, <<8242, 8242>>>>, <<8244, <<8242, 8242, 8242>>>>,
      <<8246, <<8245, 8245>>>>, <<8247, <<8245, 8245, 8245>>>>, <<8252, <<33, 33>>>>, <<8254, <<32, 773>>>>,
      <<8263, <<63, 63>>>>, <<8264, <<63, 33>>>>, <<8265, <<33, 63>>>>, <<8279, <<8242, 8242, 8242, 8242>>>>,
      <<8287, <<32>>>>, <<8304, <<48>>>>, <<8305, <<105>>>>, <<8308, <<52>>>>, <<8309, <<53>>>>,
      <<8310, <<54>>>>, <<8311, <<55>>>>, <<8312, <<56>>>>, <<8313, <<57>>>>, <<8314, <<43>>>>,
      <<8315, <<8722>>>>, <<8316, <<61>>>>, <<8317, <<40>>>>, <<8318, <<41>>>>, <<8319, <<110>>>>,
      <<8320, <<48>>>>, <<8321, <<49>>>>, <<8322, <<50>>>>, <<8323, <<51>>>>, <<8324, <<52>>>>,
      <<8325, <<53>>>>, <<8326, <<54>>>>, <<8327, <<55>>>>, <<8328, <<56>>>>, <<8329, <<57>>>>,
      <<8330, <<43>>>>, <<8331, <<8722>>>>, <<8332, <<61>>>>, <<8333, <<40>>>>, <<8334, <<41>>>>,
      <<8336, <<97>>>>, <<8337, <<101>>>>, <<8338, <<111>>>>, <<8339, <<120>>>>, <<8340, <<601>>>>,
      <<8341, <<104>>>>, <<8342, <<107>>>>, <<8343, <<108>>>>, <<8344, <<109>>>>, <<8345, <<110>>>>,
      <<8346, <<112>>>>, <<8347, <<115>>>>, <<8348, <<116>>>>, <<8360, <<82, 115>>>>,
      <<8448, <<97, 47, 99>>>>, <<8449, <<97, 47, 115>>>>, <<8450, <<67>>>>, <<8451, <<176, 67>>>>,
      <<8453, <<99, 47, 111>>>>, <<8454, <<99, 47, 117>>>>, <<8455, <<400>>>>, <<8457, <<176, 70>>>>,
      <<8458, <<103>>>>, <<8459, <<72>>>>, <<8460, <<72>>>>, <<8461, <<72>>>>, <<8462, <<104>>>>,
      <<8463, <<295>>>>, <<8464, <<73>>>>, <<8465, <<73>>>>, <<8466, <<76>>>>, <<8467, <<108>>>>,
      <<8469, <<78>>>>, <<8470, <<78, 111>>>>, <<8473, <<80>>>>, <<8474, <<81>>>>, <<8475, <<82>>>>,
      <<8476, <<82>>>>, <<8477, <<82>>>>, <<8480, <<83, 77>>>>, <<8481, <<84, 69, 76>>>>,
      <<8482, <<84, 77>>>>, <<8484, <<90>>>>, <<8486, <<937>>>>, <<8488, <<90>>>>, <<8490, <<75>>>>,
      <<8491, <<65, 778>>>>, <<8492, <<66>>>>, <<8493, <<67>>>>, <<8495, <<101>>>>, <<8496, <<69>>>>,
      <<8497, <<70>>>>, <<8499, <<77>>>>, <<8500, <<111>>>>, <<8501, <<1488>>>>, <<8502, <<1489>>>>,
      <<8503, <<1490>>>>, <<8504, <<1491>>>>, <<8505, <<105>>>>, <<8507, <<70, 65, 88>>>>, <<8508, <<960>>>>,
      <<8509, <<947>>>>, <<8510, <<915>>>>, <<8511, <<928>>>>, <<8512, <<8721>>>>, <<8517, <<68>>>>,
      <<8518, <<100>>>>, <<8519, <<101>>>>, <<8520, <<105>>>>, <<8521, <<106>>>>, <<8528, <<49, 8260, 55>>>>,
      <<8529, <<49, 8260, 57>>>>, <<8530, <<49, 8260, 49, 48>>>>, <<8531, <<49, 8260, 51>>>>,
      <<8532, <<50, 8260, 51>>>>, <<8533, <<49, 8260, 53>>>>, <<8534, <<50, 8260, 53>>>>,
      <<8535, <<51, 8260, 53>>>>, <<8536, <<52, 8260, 53>>>>, <<8537, <<49, 8260, 54>>>>,
      <<8538, <<53, 8260, 54>>>>, <<8539, <<49, 8260, 56>>>>, <<8540, <<51, 8260, 56>>>>,
      <<8541, <<53, 8260, 56>>>>, <<8542, <<55, 8260, 56>>>>, <<8543, <<49, 8260>>>>, <<8544, <<73>>>>,
      <<8545, <<73, 73>>>>, <<8546, <<73, 73, 73>>>>, <<8547, <<73, 86>>>>, <<8548, <<86>>>>,
      <<8549, <<86, 73>>>>, <<8550, <<86, 73, 73>>>>, <<8551, <<86, 73, 73, 73>>>>, <<8552, <<73, 88>>>>,
      <<8553, <<88>>>>, <<8554, <<88, 73>>>>, <<8555, <<88, 73, 73>>>>, <<8556, <<76>>>>, <<8557, <<67>>>>,
      <<8558, <<68>>>>, <<8559, <<77>>>>, <<8560, <<105>>>>, <<8561, <<105, 105>>>>,
      <<8562, <<105, 105, 105>>>>, <<8563, <<105, 118>>>>, <<8564, <<118>>>>, <<8565, <<118, 105>>>>,
      <<8566, <<118, 105, 105>>>>, <<8567, <<118, 105, 105, 105>>>>, <<8568, <<105, 120>>>>,
      <<8569, <<120>>>>, <<8570, <<120, 105>>>>, <<8571, <<120, 105, 105>>>>, <<8572, <<108>>>>,
      <<8573, <<99>>>>, <<8574, <<100>>>>, <<8575, <<109>>>>, <<8585, <<48, 8260, 51>>>>,
      <<8602, <<8592, 824>>>>, <<8603, <<8594, 824>>>>, <<8622, <<8596, 824>>>>, <<8653, <<8656, 824>>>>,
      <<8654, <<8660, 824>>>>, <<8655, <<8658, 824>>>>, <<8708, <<8707, 824>>>>, <<8713, <<8712, 824>>>>,
      <<8716, <<8715, 824>>>>, <<8740, <<8739, 824>>>>, <<8742, <<8741, 824>>>>, <<8748, <<8747, 8747>>>>,
      <<8749, <<8747, 8747, 8747>>>>, <<8751, <<8750, 8750>>>>, <<8752, <<8750, 8750, 8750>>>>,
      <<8769, <<8764, 824>>>>, <<8772, <<8771, 824>>>>, <<8775, <<8773, 824>>>>, <<8777, <<8776, 824>>>>,
      <<8800, <<61, 824>>>>, <<8802, <<8801, 824>>>>, <<8813, <<8781, 824>>>>, <<8814, <<60, 824>>>>,
      <<8815, <<62, 824>>>>, <<8816, <<8804, 824>>>>, <<8817, <<8805, 824>>>>, <<8820, <<8818, 824>>>>,
      <<8821, <<8819, 824>>>>, <<8824, <<8822, 824>>>>, <<8825, <<8823, 824>>>>, <<8832, <<8826, 824>>>>,
      <<8833, <<8827, 824>>>>, <<8836, <<8834, 824>>>>, <<8837, <<8835, 824>>>>, <<8840, <<8838, 824>>>>,
      <<8841, <<8839, 824>>>>, <<8876, <<8866, 824>>>>, <<8877, <<8872, 824>>>>, <<8878, <<8873, 824>>>>,
      <<8879, <<8875, 824>>>>, <<8928, <<8828, 824>>>>, <<8929, <<8829, 824>>>>, <<8930, <<8849, 824>>>>,
      <<8931, <<8850, 824>>>>, <<8938, <<8882, 824>>>>, <<8939, <<8883, 824>>>>, <<8940, <<8884, 824>>>>,
      <<8941, <<8885, 824>>>>, <<9001, <<12296>>>>, <<9002, <<12297>>>>, <<9312, <<49>>>>, <<9313, <<50>>>>,
      <<9314, <<51>>>>, <<9315, <<52>>>>, <<9316, <<53>>>>, <<9317, <<54>>>>, <<9318, <<55>>>>,
      <<9319, <<56>>>>, <<9320, <<57>>>>, <<9321, <<49, 48>>>>, <<9322, <<49, 49>>>>, <<9323, <<49, 50>>>>,
      <<9324, <<49, 51>>>>, <<9325, <<49, 52>>>>, <<9326, <<49, 53>>>>, <<9327, <<49, 54>>>>,
      <<9328, <<49, 55>>>>, <<9329, <<49, 56>>>>, <<9330, <<49, 57>>>>, <<9331, <<50, 48>>>>,
      <<9332, <<40, 49, 41>>>>, <<9333, <<40, 50, 41>>>>, <<9334, <<40, 51, 41>>>>, <<9335, <<40, 52, 41>>>>,
      <<9336, <<40, 53, 41>>>>, <<9337, <<40, 54, 41>>>>, <<9338, <<40, 55, 41>>>>, <<9339, <<40, 56, 41>>>>,
      <<9340, <<40, 57, 41>>>>, <<9341, <<40, 49, 48, 41>>>>, <<9342, <<40, 49, 49, 41>>>>,
      <<9343, <<40, 49, 50, 41>>>>, <<9344, <<40, 49, 51, 41>>>>, <<9345, <<40, 49, 52, 41>>>>,
      <<9346, <<40, 49, 53, 41>>>>, <<9347, <<40, 49, 54, 41>>>>, <<9348, <<40, 49, 55, 41>>>>,
      <<9349, <<40, 49, 56, 41>>>>, <<9350, <<40, 49, 57, 41>>>>, <<9351, <<40, 50, 48, 41>>>>,
      <<9352, <<49, 46>>>>, <<9353, <<50, 46>>>>, <<9354, <<51, 46>>>>, <<9355, <<52, 46>>>>,
      <<9356, <<53, 46>>>>, <<9357, <<54, 46>>>>, <<9358, <<55, 46>>>>, <<9359, <<56, 46>>>>,
      <<9360, <<57, 46>>>>, <<9361, <<49, 48, 46>>>>, <<9362, <<49, 49, 46>>>>, <<9363, <<49, 50, 46>>>>,
      <<9364, <<49, 51, 46>>>>, <<9365, <<49, 52, 46>>>>, <<9366, <<49, 53, 46>>>>, <<9367, <<49, 54, 46>>>>,
      <<9368, <<49, 55, 46>>>>, <<9369, <<49, 56, 46>>>>, <<9370, <<49, 57, 46>>>>, <<9371, <<50, 48, 46>>>>,
      <<9372, <<40, 97, 41>>>>, <<9373, <<40, 98, 41>>>>, <<9374, <<40, 99, 41>>>>,
      <<9375, <<40, 100, 41>>>>, <<9376, <<40, 101, 41>>>>, <<9377, <<40, 102, 41>>>>,
      <<9378, <<40, 103, 41>>>>, <<9379, <<40, 104, 41>>>>, <<9380, <<40, 105, 41>>>>,
      <<9381, <<40, 106, 41>>>>, <<9382, <<40, 107, 41>>>>, <<9383, <<40, 108, 41>>>>,
      <<9384, <<40, 109, 41>>>>, <<9385, <<40, 110, 41>>>>, <<9386, <<40, 111, 41>>>>,
      <<9387, <<40, 112, 41>>>>, <<9388, <<40, 113, 41>>>>, <<9389, <<40, 114, 41>>>>,
      <<9390, <<40, 115, 41>>>>, <<9391, <<40, 116, 41>>>>, <<9392, <<40, 117, 41>>>>,
      <<9393, <<40, 118, 41>>>>, <<9394, <<40, 119, 41>>>>, <<9395, <<40, 120, 41>>>>,
      <<9396, <<40, 121, 41>>>>, <<9397, <<40, 122, 41>>>>, <<9398, <<65>>>>, <<9399, <<66>>>>,
      <<9400, <<67>>>>, <<9401, <<68>>>>, <<9402, <<69>>>>, <<9403, <<70>>>>, <<9404, <<71>>>>,
      <<9405, <<72>>>>, <<9406, <<73>>>>, <<9407, <<74>>>>, <<9408, <<75>>>>, <<9409, <<76>>>>,
      <<9410, <<77>>>>, <<9411, <<78>>>>, <<9412, <<79>>>>, <<9413, <<80>>>>, <<9414, <<81>>>>,
      <<9415, <<82>>>>, <<9416, <<83>>>>, <<9417, <<84>>>>, <<9418, <<85>>>>, <<9419, <<86>>>>,
      <<9420, <<87>>>>, <<9421, <<88>>>>, <<9422, <<89>>>>, <<9423, <<90>>>>, <<9424, <<97>>>>,
      <<9425, <<98>>>>, <<9426, <<99>>>>, <<9427, <<100>>>>, <<9428, <<101>>>>, <<9429, <<102>>>>,
      <<9430, <<103>>>>, <<9431, <<104>>>>, <<9432, <<105>>>>, <<9433, <<106>>>>, <<9434, <<107>>>>,
      <<9435, <<108>>>>, <<9436, <<109>>>>, <<9437, <<110>>>>, <<9438, <<111>>>>, <<9439, <<112>>>>,
      <<9440, <<113>>>>, <<9441, <<114>>>>, <<9442, <<115>>>>, <<9443, <<116>>>>, <<9444, <<117>>>>,
      <<9445, <<118>>>>, <<9446, <<119>>>>, <<9447, <<120>>>>, <<9448, <<121>>>>, <<9449, <<122>>>>,
      <<9450, <<48>>>>, <<10764, <<8747, 8747, 8747, 8747>>>>, <<10868, <<58, 58, 61>>>>,
      <<10869, <<61, 61>>>>, <<10870, <<61, 61, 61>>>>, <<10972, <<10973, 824>>>>, <<11388, <<106>>>>,
      <<11389, <<86>>>>, <<11631, <<11617>>>>, <<11935, <<27597>>>>, <<12019, <<40863>>>>,
      <<12032, <<19968>>>>, <<12033, <<20008>>>>, <<12034, <<20022>>>>, <<12035, <<20031>>>>,
      <<12036, <<20057>>>>, <<12037, <<20101>>>>, <<12038, <<20108>>>>, <<12039, <<20128>>>>,
      <<12040, <<20154>>>>, <<12041, <<20799>>>>, <<12042, <<20837>>>>, <<12043, <<20843>>>>,
      <<12044, <<20866>>>>, <<12045, <<20886>>>>, <<12046, <<20907>>>>, <<12047, <<20960>>>>,
      <<12048, <<20981>>>>, <<12049, <<20992>>>>, <<12050, <<21147>>>>, <<12051, <<21241>>>>,
      <<12052, <<21269>>>>, <<12053, <<21274>>>>, <<12054, <<21304>>>>, <<12055, <<21313>>>>,
      <<12056, <<21340>>>>, <<12057, <<21353>>>>, <<12058, <<21378>>>>, <<12059, <<21430>>>>,
      <<12060, <<21448>>>>, <<12061, <<21475>>>>, <<12062, <<22231>>>>, <<12063, <<22303>>>>,
      <<12064, <<22763>>>>, <<12065, <<22786>>>>, <<12066, <<22794>>>>, <<12067, <<22805>>>>,
      <<12068, <<22823>>>>, <<12069, <<22899>>>>, <<12070, <<23376>>>>, <<12071, <<23424>>>>,
      <<12072, <<23544>>>>, <<12073, <<23567>>>>, <<12074, <<23586>>>>, <<12075, <<23608>>>>,
      <<12076, <<23662>>>>, <<12077, <<23665>>>>, <<12078, <<24027>>>>, <<12079, <<24037>>>>,
      <<12080, <<24049>>>>, <<12081, <<24062>>>>, <<12082, <<24178>>>>, <<12083, <<24186>>>>,
      <<12084, <<24191>>>>, <<12085, <<24308>>>>, <<12086, <<24318>>>>, <<12087, <<24331>>>>,
      <<12088, <<24339>>>>, <<12089, <<24400>>>>, <<12090, <<24417>>>>, <<12091, <<24435>>>>,
      <<12092, <<24515>>>>, <<12093, <<25096>>>>, <<12094, <<25142>>>>, <<12095, <<25163>>>>,
      <<12096, <<25903>>>>, <<12097, <<25908>>>>, <<12098, <<25991>>>>, <<12099, <<26007>>>>,
      <<12100, <<26020>>>>, <<12101, <<26041>>>>, <<12102, <<26080>>>>, <<12103, <<26085>>>>,
      <<12104, <<26352>>>>, <<12105, <<26376>>>>, <<12106, <<26408>>>>, <<12107, <<27424>>>>,
      <<12108, <<27490>>>>, <<12109, <<27513>>>>, <<12110, <<27571>>>>, <<12111, <<27595>>>>,
      <<12112, <<27604>>>>, <<12113, <<27611>>>>, <<12114, <<27663>>>>, <<12115, <<27668>>>>,
      <<12116, <<27700>>>>, <<12117, <<28779>>>>, <<12118, <<29226>>>>, <<12119, <<29238>>>>,
      <<12120, <<29243>>>>, <<12121, <<29247>>>>, <<12122, <<29255>>>>, <<12123, <<29273>>>>,
      <<12124, <<29275>>>>, <<12125, <<29356>>>>, <<12126, <<29572>>>>, <<12127, <<29577>>>>,
      <<12128, <<29916>>>>, <<12129, <<29926>>>>, <<12130, <<29976>>>>, <<12131, <<29983>>>>,
      <<12132, <<29992>>>>, <<12133, <<30000>>>>, <<12134, <<30091>>>>, <<12135, <<30098>>>>,
      <<12136, <<30326>>>>, <<12137, <<30333>>>>, <<12138, <<30382>>>>, <<12139, <<30399>>>>,
      <<12140, <<30446>>>>, <<12141, <<30683>>>>, <<12142, <<30690>>>>, <<12143, <<30707>>>>,
      <<12144, <<31034>>>>, <<12145, <<31160>>>>, <<12146, <<31166>>>>, <<12147, <<31348>>>>,
      <<12148, <<31435>>>>, <<12149, <<31481>>>>, <<12150, <<31859>>>>, <<12151, <<31992>>>>,
      <<12152, <<32566>>>>, <<12153, <<32593>>>>, <<12154, <<32650>>>>, <<12155, <<32701>>>>,
      <<12156, <<32769>>>>, <<12157, <<32780>>>>, <<12158, <<32786>>>>, <<12159, <<32819>>>>,
      <<12160, <<32895>>>>, <<12161, <<32905>>>>, <<12162, <<33251>>>>, <<12163, <<33258>>>>,
      <<12164, <<33267>>>>, <<12165, <<33276>>>>, <<12166, <<33292>>>>, <<12167, <<33307>>>>,
      <<12168, <<33311>>>>, <<12169, <<33390>>>>, <<12170, <<33394>>>>, <<12171, <<33400>>>>,
      <<12172, <<34381>>>>, <<12173, <<34411>>>>, <<12174, <<34880>>>>, <<12175, <<34892>>>>,
      <<12176, <<34915>>>>, <<12177, <<35198>>>>, <<12178, <<35211>>>>, <<12179, <<35282>>>>,
      <<12180, <<35328>>>>, <<12181, <<35895>>>>, <<12182, <<35910>>>>, <<12183, <<35925>>>>,
      <<12184, <<35960>>>>, <<12185, <<35997>>>>, <<12186, <<36196>>>>, <<12187, <<36208>>>>,
      <<12188, <<36275>>>>, <<12189, <<36523>>>>, <<12190, <<36554>>>>, <<12191, <<36763>>>>,
      <<12192, <<36784>>>>, <<12193, <<36789>>>>, <<12194, <<37009>>>>, <<12195, <<37193>>>>,
      <<12196, <<37318>>>>, <<12197, <<37324>>>>, <<12198, <<37329>>>>, <<12199, <<38263>>>>,
      <<12200, <<38272>>>>, <<12201, <<38428>>>>, <<12202, <<38582>>>>, <<12203, <<38585>>>>,
      <<12204, <<38632>>>>, <<12205, <<38737>>>>, <<12206, <<38750>>>>, <<12207, <<38754>>>>,
      <<12208, <<38761>>>>, <<12209, <<38859>>>>, <<12210, <<38893>>>>, <<12211, <<38899>>>>,
      <<12212, <<38913>>>>, <<12213, <<39080>>>>, <<12214, <<39131>>>>, <<12215, <<39135>>>>,
      <<12216, <<39318>>>>, <<12217, <<39321>>>>, <<12218, <<39340>>>>, <<12219, <<39592>>>>,
      <<12220, <<39640>>>>, <<12221, <<39647>>>>, <<12222, <<39717>>>>, <<12223, <<39727>>>>,
      <<12224, <<39730>>>>, <<12225, <<39740>>>>, <<12226, <<39770>>>>, <<12227, <<40165>>>>,
      <<12228, <<40565>>>>, <<12229, <<40575>>>>, <<12230, <<40613>>>>, <<12231, <<40635>>>>,
      <<12232, <<40643>>>>, <<12233, <<40653>>>>, <<12234, <<40657>>>>, <<12235, <<40697>>>>,
      <<12236, <<40701>>>>, <<12237, <<40718>>>>, <<12238, <<40723>>>>, <<12239, <<40736>>>>,
      <<12240, <<40763>>>>, <<12241, <<40778>>>>, <<12242, <<40786>>>>, <<12243, <<40845>>>>,
      <<12244, <<40860>>>>, <<12245, <<40864>>>>, <<12288, <<32>>>>, <<12342, <<12306>>>>,
      <<12344, <<21313>>>>, <<12345, <<21316>>>>, <<12346, <<21317>>>>, <<12364, <<12363, 12441>>>>,
      <<12366, <<12365, 12441>>>>, <<12368, <<12367, 12441>>>>, <<12370, <<12369, 12441>>>>,
      <<12372, <<12371, 12441>>>>, <<12374, <<12373, 12441>>>>, <<12376, <<12375, 12441>>>>,
      <<12378, <<12377, 12441>>>>, <<12380, <<12379, 12441>>>>, <<12382, <<12381, 12441>>>>,
      <<12384, <<12383, 12441>>>>, <<12386, <<12385, 12441>>>>, <<12389, <<12388, 12441>>>>,
      <<12391, <<12390, 12441>>>>, <<12393, <<12392, 12441>>>>, <<12400, <<12399, 12441>>>>,
      <<12401, <<12399, 12442>>>>, <<12403, <<12402, 12441>>>>, <<12404, <<12402, 12442>>>>,
      <<12406, <<12405, 12441>>>>, <<12407, <<12405, 12442>>>>, <<12409, <<12408, 12441>>>>,
      <<12410, <<12408, 12442>>>>, <<12412, <<12411, 12441>>>>, <<12413, <<12411, 12442>>>>,
      <<12436, <<12358, 12441>>>>, <<12443, <<32, 12441>>>>, <<12444, <<32, 12442>>>>,
      <<12446, <<12445, 12441>>>>, <<12447, <<12424, 12426>>>>, <<12460, <<12459, 12441>>>>,
      <<12462, <<12461, 12441>>>>, <<12464, <<12463, 12441>>>>, <<12466, <<12465, 12441>>>>,
      <<12468, <<12467, 12441>>>>, <<12470, <<12469, 12441>>>>, <<12472, <<12471, 12441>>>>,
      <<12474, <<12473, 12441>>>>, <<12476, <<12475, 12441>>>>, <<12478, <<12477, 12441>>>>,
      <<12480, <<12479, 12441>>>>, <<12482, <<12481, 12441>>>>, <<12485, <<12484, 12441>>>>,
      <<12487, <<12486, 12441>>>>, <<12489, <<12488, 12441>>>>, <<12496, <<12495, 12441>>>>,
      <<12497, <<12495, 12442>>>>, <<12499, <<12498, 12441>>>>, <<12500, <<12498, 12442>>>>,
      <<12502, <<12501, 12441>>>>, <<12503, <<12501, 12442>>>>, <<12505, <<12504, 12441>>>>,
      <<12506, <<12504, 12442>>>>, <<12508, <<12507, 12441>>>>, <<12509, <<12507, 12442>>>>,
      <<12532, <<12454, 12441>>>>, <<12535, <<12527, 12441>>>>, <<12536, <<12528, 12441>>>>,
      <<12537, <<12529, 12441>>>>, <<12538, <<12530, 12441>>>>, <<12542, <<12541, 12441>>>>,
      <<12543, <<12467, 12488>>>>, <<12593, <<4352>>>>, <<12594, <<4353>>>>, <<12595, <<4522>>>>,
      <<12596, <<4354>>>>, <<12597, <<4524>>>>, <<12598, <<4525>>>>, <<12599, <<4355>>>>,
      <<12600, <<4356>>>>, <<12601, <<4357>>>>, <<12602, <<4528>>>>, <<12603, <<4529>>>>,
      <<12604, <<4530>>>>, <<12605, <<4531>>>>, <<12606, <<4532>>>>, <<12607, <<4533>>>>,
      <<12608, <<4378>>>>, <<12609, <<4358>>>>, <<12610, <<4359>>>>, <<12611, <<4360>>>>,
      <<12612, <<4385>>>>, <<12613, <<4361>>>>, <<12614, <<4362>>>>, <<12615, <<4363>>>>,
      <<12616, <<4364>>>>, <<12617, <<4365>>>>, <<12618, <<4366>>>>, <<12619, <<4367>>>>,
      <<12620, <<4368>>>>, <<12621, <<4369>>>>, <<12622, <<4370>>>>, <<12623, <<4449>>>>,
      <<12624, <<4450>>>>, <<12625, <<4451>>>>, <<12626, <<4452>>>>, <<12627, <<4453>>>>,
      <<12628, <<4454>>>>, <<12629, <<4455>>>>, <<12630, <<4456>>>>, <<12631, <<4457>>>>,
      <<12632, <<4458>>>>, <<12633, <<4459>>>>, <<12634, <<4460>>>>, <<12635, <<4461>>>>,
      <<12636, <<4462>>>>, <<12637, <<4463>>>>, <<12638, <<4464>>>>, <<12639, <<4465>>>>,
      <<12640, <<4466>>>>, <<12641, <<4467>>>>, <<12642, <<4468>>>>, <<12643, <<4469>>>>,
      <<12644, <<4448>>>>, <<12645, <<4372>>>>, <<12646, <<4373>>>>, <<12647, <<4551>>>>,
      <<12648, <<4552>>>>, <<12649, <<4556>>>>, <<12650, <<4558>>>>, <<12651, <<4563>>>>,
      <<12652, <<4567>>>>, <<12653, <<4569>>>>, <<12654, <<4380>>>>, <<12655, <<4573>>>>,
      <<12656, <<4575>>>>, <<12657, <<4381>>>>, <<12658, <<4382>>>>, <<12659, <<4384>>>>,
      <<12660, <<4386>>>>, <<12661, <<4387>>>>, <<12662, <<4391>>>>, <<12663, <<4393>>>>,
      <<12664, <<4395>>>>, <<12665, <<4396>>>>, <<12666, <<4397>>>>, <<12667, <<4398>>>>,
      <<12668, <<4399>>>>, <<12669, <<4402>>>>, <<12670, <<4406>>>>, <<12671, <<4416>>>>,
      <<12672, <<4423>>>>, <<12673, <<4428>>>>, <<12674, <<4593>>>>, <<12675, <<4594>>>>,
      <<12676, <<4439>>>>, <<12677, <<4440>>>>, <<12678, <<4441>>>>, <<12679, <<4484>>>>,
      <<12680, <<4485>>>>, <<12681, <<4488>>>>, <<12682, <<4497>>>>, <<12683, <<4498>>>>,
      <<12684, <<4500>>>>, <<12685, <<4510>>>>, <<12686, <<4513>>>>, <<12690, <<19968>>>>,
      <<12691, <<20108>>>>, <<12692, <<19977>>>>, <<12693, <<22235>>>>, <<12694, <<19978>>>>,
      <<12695, <<20013>>>>, <<12696, <<19979>>>>, <<12697, <<30002>>>>, <<12698, <<20057>>>>,
      <<12699, <<19993>>>>, <<12700, <<19969>>>>, <<12701, <<22825>>>>, <<12702, <<22320>>>>,
      <<12703, <<20154>>>>, <<12800, <<40, 4352, 41>>>>, <<12801, <<40, 4354, 41>>>>,
      <<12802, <<40, 4355, 41>>>>, <<12803, <<40, 4357, 41>>>>, <<12804, <<40, 4358, 41>>>>,
      <<12805, <<40, 4359, 41>>>>, <<12806, <<40, 4361, 41>>>>, <<12807, <<40, 4363, 41>>>>,
      <<12808, <<40, 4364, 41>>>>, <<12809, <<40, 4366, 41>>>>, <<12810, <<40, 4367, 41>>>>,
      <<12811, <<40, 4368, 41>>>>, <<12812, <<40, 4369, 41>>>>, <<12813, <<40, 4370, 41>>>>,
      <<12814, <<40, 4352, 4449, 41>>>>, <<12815, <<40, 4354, 4449, 41>>>>,
      <<12816, <<40, 4355, 4449, 41>>>>, <<12817, <<40, 4357, 4449, 41>>>>,
      <<12818, <<40, 4358, 4449, 41>>>>, <<12819, <<40, 4359, 4449, 41>>>>,
      <<12820, <<40, 4361, 4449, 41>>>>, <<12821, <<40, 4363, 4449, 41>>>>,
      <<12822, <<40, 4364, 4449, 41>>>>, <<12823, <<40, 4366, 4449, 41>>>>,
      <<12824, <<40, 4367, 4449, 41>>>>, <<12825, <<40, 4368, 4449, 41>>>>,
      <<12826, <<40, 4369, 4449, 41>>>>, <<12827, <<40, 4370, 4449, 41>>>>,
      <<12828, <<40, 4364, 4462, 41>>>>, <<12829, <<40, 4363, 4457, 4364, 4453, 4523, 41>>>>,
      <<12830, <<40, 4363, 4457, 4370, 4462, 41>>>>, <<12832, <<40, 19968, 41>>>>,
      <<12833, <<40, 20108, 41>>>>, <<12834, <<40, 19977, 41>>>>, <<12835, <<40, 22235, 41>>>>,
      <<12836, <<40, 20116, 41>>>>, <<12837, <<40, 20845, 41>>>>, <<12838, <<40, 19971, 41>>>>,
      <<12839, <<40, 20843, 41>>>>, <<12840, <<40, 20061, 41>>>>, <<12841, <<40, 21313, 41>>>>,
      <<12842, <<40, 26376, 41>>>>, <<12843, <<40, 28779, 41>>>>, <<12844, <<40, 27700, 41>>>>,
      <<12845, <<40, 26408, 41>>>>, <<12846, <<40, 37329, 41>>>>, <<12847, <<40, 22303, 41>>>>,
      <<12848, <<40, 26085, 41>>>>, <<12849, <<40, 26666, 41>>>>, <<12850, <<40, 26377, 41>>>>,
      <<12851, <<40, 31038, 41>>>>, <<12852, <<40, 21517, 41>>>>, <<12853, <<40, 29305, 41>>>>,
      <<12854, <<40, 36001, 41>>>>, <<12855, <<40, 31069, 41>>>>, <<12856, <<40, 21172, 41>>>>,
      <<12857, <<40, 20195, 41>>>>, <<12858, <<40, 21628, 41>>>>, <<12859, <<40, 23398, 41>>>>,
      <<12860, <<40, 30435, 41>>>>, <<12861, <<40, 20225, 41>>>>, <<12862, <<40, 36039, 41>>>>,
      <<12863, <<40, 21332, 41>>>>, <<12864, <<40, 31085, 41>>>>, <<12865, <<40, 20241, 41>>>>,
      <<12866, <<40, 33258, 41>>>>, <<12867, <<40, 33267, 41>>>>, <<12868, <<21839>>>>, <<12869, <<24188>>>>,
      <<12870, <<25991>>>>, <<12871, <<31631>>>>, <<12880, <<80, 84, 69>>>>, <<12881, <<50, 49>>>>,
      <<12882, <<50, 50>>>>, <<12883, <<50, 51>>>>, <<12884, <<50, 52>>>>, <<12885, <<50, 53>>>>,
      <<12886, <<50, 54>>>>, <<12887, <<50, 55>>>>, <<12888, <<50, 56>>>>, <<12889, <<50, 57>>>>,
      <<12890, <<51, 48>>>>, <<12891, <<51, 49>>>>, <<12892, <<51, 50>>>>, <<12893, <<51, 51>>>>,
      <<12894, <<51, 52>>>>, <<12895, <<51, 53>>>>, <<12896, <<4352>>>>, <<12897, <<4354>>>>,
      <<12898, <<4355>>>>, <<12899, <<4357>>>>, <<12900, <<4358>>>>, <<12901, <<4359>>>>,
      <<12902, <<4361>>>>, <<12903, <<4363>>>>, <<12904, <<4364>>>>, <<12905, <<4366>>>>,
      <<12906, <<4367>>>>, <<12907, <<4368>>>>, <<12908, <<4369>>>>, <<12909, <<4370>>>>,
      <<12910, <<4352, 4449>>>>, <<12911, <<4354, 4449>>>>, <<12912, <<4355, 4449>>>>,
      <<12913, <<4357, 4449>>>>, <<12914, <<4358, 4449>>>>, <<12915, <<4359, 4449>>>>,
      <<12916, <<4361, 4449>>>>, <<12917, <<4363, 4449>>>>, <<12918, <<4364, 4449>>>>,
      <<12919, <<4366, 4449>>>>, <<12920, <<4367, 4449>>>>, <<12921, <<4368, 4449>>>>,
      <<12922, <<4369, 4449>>>>, <<12923, <<4370, 4449>>>>, <<12924, <<4366, 4449, 4535, 4352, 4457>>>>,
      <<12925, <<4364, 4462, 4363, 4468>>>>, <<12926, <<4363, 4462>>>>, <<12928, <<19968>>>>,
      <<12929, <<20108>>>>, <<12930, <<19977>>>>, <<12931, <<22235>>>>, <<12932, <<20116>>>>,
      <<12933, <<20845>>>>, <<12934, <<19971>>>>, <<12935, <<20843>>>>, <<12936, <<20061>>>>,
      <<12937, <<21313>>>>, <<12938, <<26376>>>>, <<12939, <<28779>>>>, <<12940, <<27700>>>>,
      <<12941, <<26408>>>>, <<12942, <<37329>>>>, <<12943, <<22303>>>>, <<12944, <<26085>>>>,
      <<12945, <<26666>>>>, <<12946, <<26377>>>>, <<12947, <<31038>>>>, <<12948, <<21517>>>>,
      <<12949, <<29305>>>>, <<12950, <<36001>>>>, <<12951, <<31069>>>>, <<12952, <<21172>>>>,
      <<12953, <<31192>>>>, <<12954, <<30007>>>>, <<12955, <<22899>>>>, <<12956, <<36969>>>>,
      <<12957, <<20778>>>>, <<12958, <<21360>>>>, <<12959, <<27880>>>>, <<12960, <<38917>>>>,
      <<12961, <<20241>>>>, <<12962, <<20889>>>>, <<12963, <<27491>>>>, <<12964, <<19978>>>>,
      <<12965, <<20013>>>>, <<12966, <<19979>>>>, <<12967, <<24038>>>>, <<12968, <<21491>>>>,
      <<12969, <<21307>>>>, <<12970, <<23447>>>>, <<12971, <<23398>>>>, <<12972, <<30435>>>>,
      <<12973, <<20225>>>>, <<12974, <<36039>>>>, <<12975, <<21332>>>>, <<12976, <<22812>>>>,
      <<12977, <<51, 54>>>>, <<12978, <<51, 55>>>>, <<12979, <<51, 56>>>>, <<12980, <<51, 57>>>>,
      <<12981, <<52, 48>>>>, <<12982, <<52, 49>>>>, <<12983, <<52, 50>>>>, <<12984, <<52, 51>>>>,
      <<12985, <<52, 52>>>>, <<12986, <<52, 53>>>>, <<12987, <<52, 54>>>>, <<12988, <<52, 55>>>>,
      <<12989, <<52, 56>>>>, <<12990, <<52, 57>>>>, <<12991, <<53, 48>>>>, <<12992, <<49, 26376>>>>,
      <<12993, <<50, 26376>>>>, <<12994, <<51, 26376>>>>, <<12995, <<52, 26376>>>>, <<12996, <<53, 26376>>>>,
      <<12997, <<54, 26376>>>>, <<12998, <<55, 26376>>>>, <<12999, <<56, 26376>>>>, <<13000, <<57, 26376>>>>,
      <<13001, <<49, 48, 26376>>>>, <<13002, <<49, 49, 26376>>>>, <<13003, <<49, 50, 26376>>>>,
      <<13004, <<72, 103>>>>, <<13005, <<101, 114, 103>>>>, <<13006, <<101, 86>>>>,
      <<13007, <<76, 84, 68>>>>, <<13008, <<12450>>>>, <<13009, <<12452>>>>, <<13010, <<12454>>>>,
      <<13011, <<12456>>>>, <<13012, <<12458>>>>, <<13013, <<12459>>>>, <<13014, <<12461>>>>,
      <<13015, <<12463>>>>, <<13016, <<12465>>>>, <<13017, <<12467>>>>, <<13018, <<12469>>>>,
      <<13019, <<12471>>>>, <<13020, <<12473>>>>, <<13021, <<12475>>>>, <<13022, <<12477>>>>,
      <<13023, <<12479>>>>, <<13024, <<12481>>>>, <<13025, <<12484>>>>, <<13026, <<12486>>>>,
      <<13027, <<12488>>>>, <<13028, <<12490>>>>, <<13029, <<12491>>>>, <<13030, <<12492>>>>,
      <<13031, <<12493>>>>, <<13032, <<12494>>>>, <<13033, <<12495>>>>, <<13034, <<12498>>>>,
      <<13035, <<12501>>>>, <<13036, <<12504>>>>, <<13037, <<12507>>>>, <<13038, <<12510>>>>,
      <<13039, <<12511>>>>, <<13040, <<12512>>>>, <<13041, <<12513>>>>, <<13042, <<12514>>>>,
      <<13043, <<12516>>>>, <<13044, <<12518>>>>, <<13045, <<12520>>>>, <<13046, <<12521>>>>,
      <<13047, <<12522>>>>, <<13048, <<12523>>>>, <<13049, <<12524>>>>, <<13050, <<12525>>>>,
      <<13051, <<12527>>>>, <<13052, <<12528>>>>, <<13053, <<12529>>>>, <<13054, <<12530>>>>,
      <<13055, <<20196, 21644>>>>, <<13056, <<12450, 12495, 12442, 12540, 12488>>>>,
      <<13057, <<12450, 12523, 12501, 12449>>>>, <<13058, <<12450, 12531, 12504, 12442, 12450>>>>,
      <<13059, <<12450, 12540, 12523>>>>, <<13060, <<12452, 12491, 12531, 12463, 12441>>>>,
      <<13061, <<12452, 12531, 12481>>>>, <<13062, <<12454, 12457, 12531>>>>,
      <<13063, <<12456, 12473, 12463, 12540, 12488, 12441>>>>, <<13064, <<12456, 12540, 12459, 12540>>>>,
      <<13065, <<12458, 12531, 12473>>>>, <<13066, <<12458, 12540, 12512>>>>,
      <<13067, <<12459, 12452, 12522>>>>, <<13068, <<12459, 12521, 12483, 12488>>>>,
      <<13069, <<12459, 12525, 12522, 12540>>>>, <<13070, <<12459, 12441, 12525, 12531>>>>,
      <<13071, <<12459, 12441, 12531, 12510>>>>, <<13072, <<12461, 12441, 12459, 12441>>>>,
      <<13073, <<12461, 12441, 12491, 12540>>>>, <<13074, <<12461, 12517, 12522, 12540>>>>,
      <<13075, <<12461, 12441, 12523, 12479, 12441, 12540>>>>, <<13076, <<12461, 12525>>>>,
      <<13077, <<12461, 12525, 12463, 12441, 12521, 12512>>>>,
      <<13078, <<12461, 12525, 12513, 12540, 12488, 12523>>>>,
      <<13079, <<12461, 12525, 12527, 12483, 12488>>>>, <<13080, <<12463, 12441, 12521, 12512>>>>,
      <<13081, <<12463, 12441, 12521, 12512, 12488, 12531>>>>,
      <<13082, <<12463, 12523, 12475, 12441, 12452, 12525>>>>, <<13083, <<12463, 12525, 12540, 12493>>>>,
      <<13084, <<12465, 12540, 12473>>>>, <<13085, <<12467, 12523, 12490>>>>,
      <<13086, <<12467, 12540, 12507, 12442>>>>, <<13087, <<12469, 12452, 12463, 12523>>>>,
      <<13088, <<12469, 12531, 12481, 12540, 12512>>>>, <<13089, <<12471, 12522, 12531, 12463, 12441>>>>,
      <<13090, <<12475, 12531, 12481>>>>, <<13091, <<12475, 12531, 12488>>>>,
      <<13092, <<12479, 12441, 12540, 12473>>>>, <<13093, <<12486, 12441, 12471>>>>,
      <<13094, <<12488, 12441, 12523>>>>, <<13095, <<12488, 12531>>>>, <<13096, <<12490, 12494>>>>,
      <<13097, <<12494, 12483, 12488>>>>, <<13098, <<12495, 12452, 12484>>>>,
      <<13099, <<12495, 12442, 12540, 12475, 12531, 12488>>>>, <<13100, <<12495, 12442, 12540, 12484>>>>,
      <<13101, <<12495, 12441, 12540, 12524, 12523>>>>,
      <<13102, <<12498, 12442, 12450, 12473, 12488, 12523>>>>, <<13103, <<12498, 12442, 12463, 12523>>>>,
      <<13104, <<12498, 12442, 12467>>>>, <<13105, <<12498, 12441, 12523>>>>,
      <<13106, <<12501, 12449, 12521, 12483, 12488, 12441>>>>, <<13107, <<12501, 12451, 12540, 12488>>>>,
      <<13108, <<12501, 12441, 12483, 12471, 12455, 12523>>>>, <<13109, <<12501, 12521, 12531>>>>,
      <<13110, <<12504, 12463, 12479, 12540, 12523>>>>, <<13111, <<12504, 12442, 12477>>>>,
      <<13112, <<12504, 12442, 12491, 12498>>>>, <<13113, <<12504, 12523, 12484>>>>,
      <<13114, <<12504, 12442, 12531, 12473>>>>, <<13115, <<12504, 12442, 12540, 12471, 12441>>>>,
      <<13116, <<12504, 12441, 12540, 12479>>>>, <<13117, <<12507, 12442, 12452, 12531, 12488>>>>,
      <<13118, <<12507, 12441, 12523, 12488>>>>, <<13119, <<12507, 12531>>>>,
      <<13120, <<12507, 12442, 12531, 12488, 12441>>>>, <<13121, <<12507, 12540, 12523>>>>,
      <<13122, <<12507, 12540, 12531>>>>, <<13123, <<12510, 12452, 12463, 12525>>>>,
      <<13124, <<12510, 12452, 12523>>>>, <<13125, <<12510, 12483, 12495>>>>,
      <<13126, <<12510, 12523, 12463>>>>, <<13127, <<12510, 12531, 12471, 12519, 12531>>>>,
      <<13128, <<12511, 12463, 12525, 12531>>>>, <<13129, <<12511, 12522>>>>,
      <<13130, <<12511, 12522, 12495, 12441, 12540, 12523>>>>, <<13131, <<12513, 12459, 12441>>>>,
      <<13132, <<12513, 12459, 12441, 12488, 12531>>>>, <<13133, <<12513, 12540, 12488, 12523>>>>,
      <<13134, <<12516, 12540, 12488, 12441>>>>, <<13135, <<12516, 12540, 12523>>>>,
      <<13136, <<12518, 12450, 12531>>>>, <<13137, <<12522, 12483, 12488, 12523>>>>,
      <<13138, <<12522, 12521>>>>, <<13139, <<12523, 12498, 12442, 12540>>>>,
      <<13140, <<12523, 12540, 12501, 12441, 12523>>>>, <<13141, <<12524, 12512>>>>,
      <<13142, <<12524, 12531, 12488, 12465, 12441, 12531>>>>, <<13143, <<12527, 12483, 12488>>>>,
      <<13144, <<48, 28857>>>>, <<13145, <<49, 28857>>>>, <<13146, <<50, 28857>>>>, <<13147, <<51, 28857>>>>,
      <<13148, <<52, 28857>>>>, <<13149, <<53, 28857>>>>, <<13150, <<54, 28857>>>>, <<13151, <<55, 28857>>>>,
      <<13152, <<56, 28857>>>>, <<13153, <<57, 28857>>>>, <<13154, <<49, 48, 28857>>>>,
      <<13155, <<49, 49, 28857>>>>, <<13156, <<49, 50, 28857>>>>, <<13157, <<49, 51, 28857>>>>,
      <<13158, <<49, 52, 28857>>>>, <<13159, <<49, 53, 28857>>>>, <<13160, <<49, 54, 28857>>>>,
      <<13161, <<49, 55, 28857>>>>, <<13162, <<49, 56, 28857>>>>, <<13163, <<49, 57, 28857>>>>,
      <<13164, <<50, 48, 28857>>>>, <<13165, <<50, 49, 28857>>>>, <<13166, <<50, 50, 28857>>>>,
      <<13167, <<50, 51, 28857>>>>, <<13168, <<50, 52, 28857>>>>, <<13169, <<104, 80, 97>>>>,
      <<13170, <<100, 97>>>>, <<13171, <<65, 85>>>>, <<13172, <<98, 97, 114>>>>, <<13173, <<111, 86>>>>,
      <<13174, <<112, 99>>>>, <<13175, <<100, 109>>>>, <<13176, <<100, 109, 50>>>>,
      <<13177, <<100, 109, 51>>>>, <<13178, <<73, 85>>>>, <<13179, <<24179, 25104>>>>,
      <<13180, <<26157, 21644>>>>, <<13181, <<22823, 27491>>>>, <<13182, <<26126, 27835>>>>,
      <<13183, <<26666, 24335, 20250, 31038>>>>, <<13184, <<112, 65>>>>, <<13185, <<110, 65>>>>,
      <<13186, <<956, 65>>>>, <<13187, <<109, 65>>>>, <<13188, <<107, 65>>>>, <<13189, <<75, 66>>>>,
      <<13190, <<77, 66>>>>, <<13191, <<71, 66>>>>, <<13192, <<99, 97, 108>>>>,
      <<13193, <<107, 99, 97, 108>>>>, <<13194, <<112, 70>>>>, <<13195, <<110, 70>>>>,
      <<13196, <<956, 70>>>>, <<13197, <<956, 103>>>>, <<13198, <<109, 103>>>>, <<13199, <<107, 103>>>>,
      <<13200, <<72, 122>>>>, <<13201, <<107, 72, 122>>>>, <<13202, <<77, 72, 122>>>>,
      <<13203, <<71, 72, 122>>>>, <<13204, <<84, 72, 122>>>>, <<13205, <<956, 108>>>>,
      <<13206, <<109, 108>>>>, <<13207, <<100, 108>>>>, <<13208, <<107, 108>>>>, <<13209, <<102, 109>>>>,
      <<13210, <<110, 109>>>>, <<13211, <<956, 109>>>>, <<13212, <<109, 109>>>>, <<13213, <<99, 109>>>>,
      <<13214, <<107, 109>>>>, <<13215, <<109, 109, 50>>>>, <<13216, <<99, 109, 50>>>>,
      <<13217, <<109, 50>>>>, <<13218, <<107, 109, 50>>>>, <<13219, <<109, 109, 51>>>>,
      <<13220, <<99, 109, 51>>>>, <<13221, <<109, 51>>>>, <<13222, <<107, 109, 51>>>>,
      <<13223, <<109, 8725, 115>>>>, <<13224, <<109, 8725, 115, 50>>>>, <<13225, <<80, 97>>>>,
      <<13226, <<107, 80, 97>>>>, <<13227, <<77, 80, 97>>>>, <<13228, <<71, 80, 97>>>>,
      <<13229, <<114, 97, 100>>>>, <<13230, <<114, 97, 100, 8725, 115>>>>,
      <<13231, <<114, 97, 100, 8725, 115, 50>>>>, <<13232, <<112, 115>>>>, <<13233, <<110, 115>>>>,
      <<13234, <<956, 115>>>>, <<13235, <<109, 115>>>>, <<13236, <<112, 86>>>>, <<13237, <<110, 86>>>>,
      <<13238, <<956, 86>>>>, <<13239, <<109, 86>>>>, <<13240, <<107, 86>>>>, <<13241, <<77, 86>>>>,
      <<13242, <<112, 87>>>>, <<13243, <<110, 87>>>>, <<13244, <<956, 87>>>>, <<13245, <<109, 87>>>>,
      <<13246, <<107, 87>>>>, <<13247, <<77, 87>>>>, <<13248, <<107, 937>>>>, <<13249, <<77, 937>>>>,
      <<13250, <<97, 46, 109, 46>>>>, <<13251, <<66, 113>>>>, <<13252, <<99, 99>>>>, <<13253, <<99, 100>>>>,
      <<13254, <<67, 8725, 107, 103>>>>, <<13255, <<67, 111, 46>>>>, <<13256, <<100, 66>>>>,
      <<13257, <<71, 121>>>>, <<13258, <<104, 97>>>>, <<13259, <<72, 80>>>>, <<13260, <<105, 110>>>>,
      <<13261, <<75, 75>>>>, <<13262, <<75, 77>>>>, <<13263, <<107, 116>>>>, <<13264, <<108, 109>>>>,
      <<13265, <<108, 110>>>>, <<13266, <<108, 111, 103>>>>, <<13267, <<108, 120>>>>, <<13268, <<109, 98>>>>,
      <<13269, <<109, 105, 108>>>>, <<13270, <<109, 111, 108>>>>, <<13271, <<80, 72>>>>,
      <<13272, <<112, 46, 109, 46>>>>, <<13273, <<80, 80, 77>>>>, <<13274, <<80, 82>>>>,
      <<13275, <<115, 114>>>>, <<13276, <<83, 118>>>>, <<13277, <<87, 98>>>>, <<13278, <<86, 8725, 109>>>>,
      <<13279, <<65, 8725, 109>>>>, <<13280, <<49, 26085>>>>, <<13281, <<50, 26085>>>>,
      <<13282, <<51, 26085>>>>, <<13283, <<52, 26085>>>>, <<13284, <<53, 26085>>>>, <<13285, <<54, 26085>>>>,
      <<13286, <<55, 26085>>>>, <<13287, <<56, 26085>>>>, <<13288, <<57, 26085>>>>,
      <<13289, <<49, 48, 26085>>>>, <<13290, <<49, 49, 26085>>>>, <<13291, <<49, 50, 26085>>>>,
      <<13292, <<49, 51, 26085>>>>, <<13293, <<49, 52, 26085>>>>, <<13294, <<49, 53, 26085>>>>,
      <<13295, <<49, 54, 26085>>>>, <<13296, <<49, 55, 26085>>>>, <<13297, <<49, 56, 26085>>>>,
      <<13298, <<49, 57, 26085>>>>, <<13299, <<50, 48, 26085>>>>, <<13300, <<50, 49, 26085>>>>,
      <<13301, <<50, 50, 26085>>>>, <<13302, <<50, 51, 26085>>>>, <<13303, <<50, 52, 26085>>>>,
      <<13304, <<50, 53, 26085>>>>, <<13305, <<50, 54, 26085>>>>, <<13306, <<50, 55, 26085>>>>,
      <<13307, <<50, 56, 26085>>>>, <<13308, <<50, 57, 26085>>>>, <<13309, <<51, 48, 26085>>>>,
      <<13310, <<51, 49, 26085>>>>, <<13311, <<103, 97, 108>>>>, <<42652, <<1098>>>>, <<42653, <<1100>>>>,
      <<42864, <<42863>>>>, <<42994, <<67>>>>, <<42995, <<70>>>>, <<42996, <<81>>>>, <<43000, <<294>>>>,
      <<43001, <<339>>>>, <<43868, <<42791>>>>, <<43869, <<43831>>>>, <<43870, <<619>>>>,
      <<43871, <<43858>>>>, <<43881, <<653>>>>, <<63744, <<35912>>>>, <<63745, <<26356>>>>,
      <<63746, <<36554>>>>, <<63747, <<36040>>>>, <<63748, <<28369>>>>, <<63749, <<20018>>>>,
      <<63750, <<21477>>>>, <<63751, <<40860>>>>, <<63752, <<40860>>>>, <<63753, <<22865>>>>,
      <<63754, <<37329>>>>, <<63755, <<21895>>>>, <<63756, <<22856>>>>, <<63757, <<25078>>>>,
      <<63758, <<30313>>>>, <<63759, <<32645>>>>, <<63760, <<34367>>>>, <<63761, <<34746>>>>,
      <<63762, <<35064>>>>, <<63763, <<37007>>>>, <<63764, <<27138>>>>, <<63765, <<27931>>>>,
      <<63766, <<28889>>>>, <<63767, <<29662>>>>, <<63768, <<33853>>>>, <<63769, <<37226>>>>,
      <<63770, <<39409>>>>, <<63771, <<20098>>>>, <<63772, <<21365>>>>, <<63773, <<27396>>>>,
      <<63774, <<29211>>>>, <<63775, <<34349>>>>, <<63776, <<40478>>>>, <<63777, <<23888>>>>,
      <<63778, <<28651>>>>, <<63779, <<34253>>>>, <<63780, <<35172>>>>, <<63781, <<25289>>>>,
      <<63782, <<33240>>>>, <<63783, <<34847>>>>, <<63784, <<24266>>>>, <<63785, <<26391>>>>,
      <<63786, <<28010>>>>, <<63787, <<29436>>>>, <<63788, <<37070>>>>, <<63789, <<20358>>>>,
      <<63790, <<20919>>>>, <<63791, <<21214>>>>, <<63792, <<25796>>>>, <<63793, <<27347>>>>,
      <<63794, <<29200>>>>, <<63795, <<30439>>>>, <<63796, <<32769>>>>, <<63797, <<34310>>>>,
      <<63798, <<34396>>>>, <<63799, <<36335>>>>, <<63800, <<38706>>>>, <<63801, <<39791>>>>,
      <<63802, <<40442>>>>, <<63803, <<30860>>>>, <<63804, <<31103>>>>, <<63805, <<32160>>>>,
      <<63806, <<33737>>>>, <<63807, <<37636>>>>, <<63808, <<40575>>>>, <<63809, <<35542>>>>,
      <<63810, <<22751>>>>, <<63811, <<24324>>>>, <<63812, <<31840>>>>, <<63813, <<32894>>>>,
      <<63814, <<29282>>>>, <<63815, <<30922>>>>, <<63816, <<36034>>>>, <<63817, <<38647>>>>,
      <<63818, <<22744>>>>, <<63819, <<23650>>>>, <<63820, <<27155>>>>, <<63821, <<28122>>>>,
      <<63822, <<28431>>>>, <<63823, <<32047>>>>, <<63824, <<32311>>>>, <<63825, <<38475>>>>,
      <<63826, <<21202>>>>, <<63827, <<32907>>>>, <<63828, <<20956>>>>, <<63829, <<20940>>>>,
      <<63830, <<31260>>>>, <<63831, <<32190>>>>, <<63832, <<33777>>>>, <<63833, <<38517>>>>,
      <<63834, <<35712>>>>, <<63835, <<25295>>>>, <<63836, <<27138>>>>, <<63837, <<35582>>>>,
      <<63838, <<20025>>>>, <<63839, <<23527>>>>, <<63840, <<24594>>>>, <<63841, <<29575>>>>,
      <<63842, <<30064>>>>, <<63843, <<21271>>>>, <<63844, <<30971>>>>, <<63845, <<20415>>>>,
      <<63846, <<24489>>>>, <<63847, <<19981>>>>, <<63848, <<27852>>>>, <<63849, <<25976>>>>,
      <<63850, <<32034>>>>, <<63851, <<21443>>>>, <<63852, <<22622>>>>, <<63853, <<30465>>>>,
      <<63854, <<33865>>>>, <<63855, <<35498>>>>, <<63856, <<27578>>>>, <<63857, <<36784>>>>,
      <<63858, <<27784>>>>, <<63859, <<25342>>>>, <<63860, <<33509>>>>, <<63861, <<25504>>>>,
      <<63862, <<30053>>>>, <<63863, <<20142>>>>, <<63864, <<20841>>>>, <<63865, <<20937>>>>,
      <<63866, <<26753>>>>, <<63867, <<31975>>>>, <<63868, <<33391>>>>, <<63869, <<35538>>>>,
      <<63870, <<37327>>>>, <<63871, <<21237>>>>, <<63872, <<21570>>>>, <<63873, <<22899>>>>,
      <<63874, <<24300>>>>, <<63875, <<26053>>>>, <<63876, <<28670>>>>, <<63877, <<31018>>>>,
      <<63878, <<38317>>>>, <<63879, <<39530>>>>, <<63880, <<40599>>>>, <<63881, <<40654>>>>,
      <<63882, <<21147>>>>, <<63883, <<26310>>>>, <<63884, <<27511>>>>, <<63885, <<36706>>>>,
      <<63886, <<24180>>>>, <<63887, <<24976>>>>, <<63888, <<25088>>>>, <<63889, <<25754>>>>,
      <<63890, <<28451>>>>, <<63891, <<29001>>>>, <<63892, <<29833>>>>, <<63893, <<31178>>>>,
      <<63894, <<32244>>>>, <<63895, <<32879>>>>, <<63896, <<36646>>>>, <<63897, <<34030>>>>,
      <<63898, <<36899>>>>, <<63899, <<37706>>>>, <<63900, <<21015>>>>, <<63901, <<21155>>>>,
      <<63902, <<21693>>>>, <<63903, <<28872>>>>, <<63904, <<35010>>>>, <<63905, <<35498>>>>,
      <<63906, <<24265>>>>, <<63907, <<24565>>>>, <<63908, <<25467>>>>, <<63909, <<27566>>>>,
      <<63910, <<31806>>>>, <<63911, <<29557>>>>, <<63912, <<20196>>>>, <<63913, <<22265>>>>,
      <<63914, <<23527>>>>, <<63915, <<23994>>>>, <<63916, <<24604>>>>, <<63917, <<29618>>>>,
      <<63918, <<29801>>>>, <<63919, <<32666>>>>, <<63920, <<32838>>>>, <<63921, <<37428>>>>,
      <<63922, <<38646>>>>, <<63923, <<38728>>>>, <<63924, <<38936>>>>, <<63925, <<20363>>>>,
      <<63926, <<31150>>>>, <<63927, <<37300>>>>, <<63928, <<38584>>>>, <<63929, <<24801>>>>,
      <<63930, <<20102>>>>, <<63931, <<20698>>>>, <<63932, <<23534>>>>, <<63933, <<23615>>>>,
      <<63934, <<26009>>>>, <<63935, <<27138>>>>, <<63936, <<29134>>>>, <<63937, <<30274>>>>,
      <<63938, <<34044>>>>, <<63939, <<36988>>>>, <<63940, <<40845>>>>, <<63941, <<26248>>>>,
      <<63942, <<38446>>>>, <<63943, <<21129>>>>, <<63944, <<26491>>>>, <<63945, <<26611>>>>,
      <<63946, <<27969>>>>, <<63947, <<28316>>>>, <<63948, <<29705>>>>, <<63949, <<30041>>>>,
      <<63950, <<30827>>>>, <<63951, <<32016>>>>, <<63952, <<39006>>>>, <<63953, <<20845>>>>,
      <<63954, <<25134>>>>, <<63955, <<38520>>>>, <<63956, <<20523>>>>, <<63957, <<23833>>>>,
      <<63958, <<28138>>>>, <<63959, <<36650>>>>, <<63960, <<24459>>>>, <<63961, <<24900>>>>,
      <<63962, <<26647>>>>, <<63963, <<29575>>>>, <<63964, <<38534>>>>, <<63965, <<21033>>>>,
      <<63966, <<21519>>>>, <<63967, <<23653>>>>, <<63968, <<26131>>>>, <<63969, <<26446>>>>,
      <<63970, <<26792>>>>, <<63971, <<27877>>>>, <<63972, <<29702>>>>, <<63973, <<30178>>>>,
      <<63974, <<32633>>>>, <<63975, <<35023>>>>, <<63976, <<35041>>>>, <<63977, <<37324>>>>,
      <<63978, <<38626>>>>, <<63979, <<21311>>>>, <<63980, <<28346>>>>, <<63981, <<21533>>>>,
      <<63982, <<29136>>>>, <<63983, <<29848>>>>, <<63984, <<34298>>>>, <<63985, <<38563>>>>,
      <<63986, <<40023>>>>, <<63987, <<40607>>>>, <<63988, <<26519>>>>, <<63989, <<28107>>>>,
      <<63990, <<33256>>>>, <<63991, <<31435>>>>, <<63992, <<31520>>>>, <<63993, <<31890>>>>,
      <<63994, <<29376>>>>, <<63995, <<28825>>>>, <<63996, <<35672>>>>, <<63997, <<20160>>>>,
      <<63998, <<33590>>>>, <<63999, <<21050>>>>, <<64000, <<20999>>>>, <<64001, <<24230>>>>,
      <<64002, <<25299>>>>, <<64003, <<31958>>>>, <<64004, <<23429>>>>, <<64005, <<27934>>>>,
      <<64006, <<26292>>>>, <<64007, <<36667>>>>, <<64008, <<34892>>>>, <<64009, <<38477>>>>,
      <<64010, <<35211>>>>, <<64011, <<24275>>>>, <<64012, <<20800>>>>, <<64013, <<21952>>>>,
      <<64016, <<22618>>>>, <<64018, <<26228>>>>, <<64021, <<20958>>>>, <<64022, <<29482>>>>,
      <<64023, <<30410>>>>, <<64024, <<31036>>>>, <<64025, <<31070>>>>, <<64026, <<31077>>>>,
      <<64027, <<31119>>>>, <<64028, <<38742>>>>, <<64029, <<31934>>>>, <<64030, <<32701>>>>,
      <<64032, <<34322>>>>, <<64034, <<35576>>>>, <<64037, <<36920>>>>, <<64038, <<37117>>>>,
      <<64042, <<39151>>>>, <<64043, <<39164>>>>, <<64044, <<39208>>>>, <<64045, <<40372>>>>,
      <<64046, <<37086>>>>, <<64047, <<38583>>>>, <<64048, <<20398>>>>, <<64049, <<20711>>>>,
      <<64050, <<20813>>>>, <<64051, <<21193>>>>, <<64052, <<21220>>>>, <<64053, <<21329>>>>,
      <<64054, <<21917>>>>, <<64055, <<22022>>>>, <<64056, <<22120>>>>, <<64057, <<22592>>>>,
      <<64058, <<22696>>>>, <<64059, <<23652>>>>, <<64060, <<23662>>>>, <<64061, <<24724>>>>,
      <<64062, <<24936>>>>, <<64063, <<24974>>>>, <<64064, <<25074>>>>, <<64065, <<25935>>>>,
      <<64066, <<26082>>>>, <<64067, <<26257>>>>, <<64068, <<26757>>>>, <<64069, <<28023>>>>,
      <<64070, <<28186>>>>, <<64071, <<28450>>>>, <<64072, <<29038>>>>, <<64073, <<29227>>>>,
      <<64074, <<29730>>>>, <<64075, <<30865>>>>, <<64076, <<31038>>>>, <<64077, <<31049>>>>,
      <<64078, <<31048>>>>, <<64079, <<31056>>>>, <<64080, <<31062>>>>, <<64081, <<31069>>>>,
      <<64082, <<31117>>>>, <<64083, <<31118>>>>, <<64084, <<31296>>>>, <<64085, <<31361>>>>,
      <<64086, <<31680>>>>, <<64087, <<32244>>>>, <<64088, <<32265>>>>, <<64089, <<32321>>>>,
      <<64090, <<32626>>>>, <<64091, <<32773>>>>, <<64092, <<33261>>>>, <<64093, <<33401>>>>,
      <<64094, <<33401>>>>, <<64095, <<33879>>>>, <<64096, <<35088>>>>, <<64097, <<35222>>>>,
      <<64098, <<35585>>>>, <<64099, <<35641>>>>, <<64100, <<36051>>>>, <<64101, <<36104>>>>,
      <<64102, <<36790>>>>, <<64103, <<36920>>>>, <<64104, <<38627>>>>, <<64105, <<38911>>>>,
      <<64106, <<38971>>>>, <<64107, <<24693>>>>, <<64108, <<148206>>>>, <<64109, <<33304>>>>,
      <<64112, <<20006>>>>, <<64113, <<20917>>>>, <<64114, <<20840>>>>, <<64115, <<20352>>>>,
      <<64116, <<20805>>>>, <<64117, <<20864>>>>, <<64118, <<21191>>>>, <<64119, <<21242>>>>,
      <<64120, <<21917>>>>, <<64121, <<21845>>>>, <<64122, <<21913>>>>, <<64123, <<21986>>>>,
      <<64124, <<22618>>>>, <<64125, <<22707>>>>, <<64126, <<22852>>>>, <<64127, <<22868>>>>,
      <<64128, <<23138>>>>, <<64129, <<23336>>>>, <<64130, <<24274>>>>, <<64131, <<24281>>>>,
      <<64132, <<24425>>>>, <<64133, <<24493>>>>, <<64134, <<24792>>>>, <<64135, <<24910>>>>,
      <<64136, <<24840>>>>, <<64137, <<24974>>>>, <<64138, <<24928>>>>, <<64139, <<25074>>>>,
      <<64140, <<25140>>>>, <<64141, <<25540>>>>, <<64142, <<25628>>>>, <<64143, <<25682>>>>,
      <<64144, <<25942>>>>, <<64145, <<26228>>>>, <<64146, <<26391>>>>, <<64147, <<26395>>>>,
      <<64148, <<26454>>>>, <<64149, <<27513>>>>, <<64150, <<27578>>>>, <<64151, <<27969>>>>,
      <<64152, <<28379>>>>, <<64153, <<28363>>>>, <<64154, <<28450>>>>, <<64155, <<28702>>>>,
      <<64156, <<29038>>>>, <<64157, <<30631>>>>, <<64158, <<29237>>>>, <<64159, <<29359>>>>,
      <<64160, <<29482>>>>, <<64161, <<29809>>>>, <<64162, <<29958>>>>, <<64163, <<30011>>>>,
      <<64164, <<30237>>>>, <<64165, <<30239>>>>, <<64166, <<30410>>>>, <<64167, <<30427>>>>,
      <<64168, <<30452>>>>, <<64169, <<30538>>>>, <<64170, <<30528>>>>, <<64171, <<30924>>>>,
      <<64172, <<31409>>>>, <<64173, <<31680>>>>, <<64174, <<31867>>>>, <<64175, <<32091>>>>,
      <<64176, <<32244>>>>, <<64177, <<32574>>>>, <<64178, <<32773>>>>, <<64179, <<33618>>>>,
      <<64180, <<33775>>>>, <<64181, <<34681>>>>, <<64182, <<35137>>>>, <<64183, <<35206>>>>,
      <<64184, <<35222>>>>, <<64185, <<35519>>>>, <<64186, <<35576>>>>, <<64187, <<35531>>>>,
      <<64188, <<35585>>>>, <<64189, <<35582>>>>, <<64190, <<35565>>>>, <<64191, <<35641>>>>,
      <<64192, <<35722>>>>, <<64193, <<36104>>>>, <<64194, <<36664>>>>, <<64195, <<36978>>>>,
      <<64196, <<37273>>>>, <<64197, <<37494>>>>, <<64198, <<38524>>>>, <<64199, <<38627>>>>,
      <<64200, <<38742>>>>, <<64201, <<38875>>>>, <<64202, <<38911>>>>, <<64203, <<38923>>>>,
      <<64204, <<38971>>>>, <<64205, <<39698>>>>, <<64206, <<40860>>>>, <<64207, <<141386>>>>,
      <<64208, <<141380>>>>, <<64209, <<144341>>>>, <<64210, <<15261>>>>, <<64211, <<16408>>>>,
      <<64212, <<16441>>>>, <<64213, <<152137>>>>, <<64214, <<154832>>>>, <<64215, <<163539>>>>,
      <<64216, <<40771>>>>, <<64217, <<40846>>>>, <<64256, <<102, 102>>>>, <<64257, <<102, 105>>>>,
      <<64258, <<102, 108>>>>, <<64259, <<102, 102, 105>>>>, <<64260, <<102, 102, 108>>>>,
      <<64261, <<115, 116>>>>, <<64262, <<115, 116>>>>, <<64275, <<1396, 1398>>>>, <<64276, <<1396, 1381>>>>,
      <<64277, <<1396, 1387>>>>, <<64278, <<1406, 1398>>>>, <<64279, <<1396, 1389>>>>,
      <<64285, <<1497, 1460>>>>, <<64287, <<1522, 1463>>>>, <<64288, <<1506>>>>, <<64289, <<1488>>>>,
      <<64290, <<1491>>>>, <<64291, <<1492>>>>, <<64292, <<1499>>>>, <<64293, <<1500>>>>,
      <<64294, <<1501>>>>, <<64295, <<1512>>>>, <<64296, <<1514>>>>, <<64297, <<43>>>>,
      <<64298, <<1513, 1473>>>>, <<64299, <<1513, 1474>>>>, <<64300, <<1513, 1468, 1473>>>>,
      <<64301, <<1513, 1468, 1474>>>>, <<64302, <<1488, 1463>>>>, <<64303, <<1488, 1464>>>>,
      <<64304, <<1488, 1468>>>>, <<64305, <<1489, 1468>>>>, <<64306, <<1490, 1468>>>>,
      <<64307, <<1491, 1468>>>>, <<64308, <<1492, 1468>>>>, <<64309, <<1493, 1468>>>>,
      <<64310, <<1494, 1468>>>>, <<64312, <<1496, 1468>>>>, <<64313, <<1497, 1468>>>>,
      <<64314, <<1498, 1468>>>>, <<64315, <<1499, 1468>>>>, <<64316, <<1500, 1468>>>>,
      <<64318, <<1502, 1468>>>>, <<64320, <<1504, 1468>>>>, <<64321, <<1505, 1468>>>>,
      <<64323, <<1507, 1468>>>>, <<64324, <<1508, 1468>>>>, <<64326, <<1510, 1468>>>>,
      <<64327, <<1511, 1468>>>>, <<64328, <<1512, 1468>>>>, <<64329, <<1513, 1468>>>>,
      <<64330, <<1514, 1468>>>>, <<64331, <<1493, 1465>>>>, <<64332, <<1489, 1471>>>>,
      <<64333, <<1499, 1471>>>>, <<64334, <<1508, 1471>>>>, <<64335, <<1488, 1500>>>>, <<64336, <<1649>>>>,
      <<64337, <<1649>>>>, <<64338, <<1659>>>>, <<64339, <<1659>>>>, <<64340, <<1659>>>>,
      <<64341, <<1659>>>>, <<64342, <<1662>>>>, <<64343, <<1662>>>>, <<64344, <<1662>>>>,
      <<64345, <<1662>>>>, <<64346, <<1664>>>>, <<64347, <<1664>>>>, <<64348, <<1664>>>>,
      <<64349, <<1664>>>>, <<64350, <<1658>>>>, <<64351, <<1658>>>>, <<64352, <<1658>>>>,
      <<64353, <<1658>>>>, <<64354, <<1663>>>>, <<64355, <<1663>>>>, <<64356, <<1663>>>>,
      <<64357, <<1663>>>>, <<64358, <<1657>>>>, <<64359, <<1657>>>>, <<64360, <<1657>>>>,
      <<64361, <<1657>>>>, <<64362, <<1700>>>>, <<64363, <<1700>>>>, <<64364, <<1700>>>>,
      <<64365, <<1700>>>>, <<64366, <<1702>>>>, <<64367, <<1702>>>>, <<64368, <<1702>>>>,
      <<64369, <<1702>>>>, <<64370, <<1668>>>>, <<64371, <<1668>>>>, <<64372, <<1668>>>>,
      <<64373, <<1668>>>>, <<64374, <<1667>>>>, <<64375, <<1667>>>>, <<64376, <<1667>>>>,
      <<64377, <<1667>>>>, <<64378, <<1670>>>>, <<64379, <<1670>>>>, <<64380, <<1670>>>>,
      <<64381, <<1670>>>>, <<64382, <<1671>>>>, <<64383, <<1671>>>>, <<64384, <<1671>>>>,
      <<64385, <<1671>>>>, <<64386, <<1677>>>>, <<64387, <<1677>>>>, <<64388, <<1676>>>>,
      <<64389, <<1676>>>>, <<64390, <<1678>>>>, <<64391, <<1678>>>>, <<64392, <<1672>>>>,
      <<64393, <<1672>>>>, <<64394, <<1688>>>>, <<64395, <<1688>>>>, <<64396, <<1681>>>>,
      <<64397, <<1681>>>>, <<64398, <<1705>>>>, <<64399, <<1705>>>>, <<64400, <<1705>>>>,
      <<64401, <<1705>>>>, <<64402, <<1711>>>>, <<64403, <<1711>>>>, <<64404, <<1711>>>>,
      <<64405, <<1711>>>>, <<64406, <<1715>>>>, <<64407, <<1715>>>>, <<64408, <<1715>>>>,
      <<64409, <<1715>>>>, <<64410, <<1713>>>>, <<64411, <<1713>>>>, <<64412, <<1713>>>>,
      <<64413, <<1713>>>>, <<64414, <<1722>>>>, <<64415, <<1722>>>>, <<64416, <<1723>>>>,
      <<64417, <<1723>>>>, <<64418, <<1723>>>>, <<64419, <<1723>>>>, <<64420, <<1749, 1620>>>>,
      <<64421, <<1749, 1620>>>>, <<64422, <<1729>>>>, <<64423, <<1729>>>>, <<64424, <<1729>>>>,
      <<64425, <<1729>>>>, <<64426, <<1726>>>>, <<64427, <<1726>>>>, <<64428, <<1726>>>>,
      <<64429, <<1726>>>>, <<64430, <<1746>>>>, <<64431, <<1746>>>>, <<64432, <<1746, 1620>>>>,
      <<64433, <<1746, 1620>>>>, <<64467, <<1709>>>>, <<64468, <<1709>>>>, <<64469, <<1709>>>>,
      <<64470, <<1709>>>>, <<64471, <<1735>>>>, <<64472, <<1735>>>>, <<64473, <<1734>>>>,
      <<64474, <<1734>>>>, <<64475, <<1736>>>>, <<64476, <<1736>>>>, <<64477, <<1735, 1652>>>>,
      <<64478, <<1739>>>>, <<64479, <<1739>>>>, <<64480, <<1733>>>>, <<64481, <<1733>>>>,
      <<64482, <<1737>>>>, <<64483, <<1737>>>>, <<64484, <<1744>>>>, <<64485, <<1744>>>>,
      <<64486, <<1744>>>>, <<64487, <<1744>>>>, <<64488, <<1609>>>>, <<64489, <<1609>>>>,
      <<64490, <<1610, 1620, 1575>>>>, <<64491, <<1610, 1620, 1575>>>>, <<64492, <<1610, 1620, 1749>>>>,
      <<64493, <<1610, 1620, 1749>>>>, <<64494, <<1610, 1620, 1608>>>>, <<64495, <<1610, 1620, 1608>>>>,
      <<64496, <<1610, 1620, 1735>>>>, <<64497, <<1610, 1620, 1735>>>>, <<64498, <<1610, 1620, 1734>>>>,
      <<64499, <<1610, 1620, 1734>>>>, <<64500, <<1610, 1620, 1736>>>>, <<64501, <<1610, 1620, 1736>>>>,
      <<64502, <<1610, 1620, 1744>>>>, <<64503, <<1610, 1620, 1744>>>>, <<64504, <<1610, 1620, 1744>>>>,
      <<64505, <<1610, 1620, 1609>>>>, <<64506, <<1610, 1620, 1609>>>>, <<64507, <<1610, 1620, 1609>>>>,
      <<64508, <<1740>>>>, <<64509, <<1740>>>>, <<64510, <<1740>>>>, <<64511, <<1740>>>>,
      <<64512, <<1610, 1620, 1580>>>>, <<64513, <<1610, 1620, 1581>>>>, <<64514, <<1610, 1620, 1605>>>>,
      <<64515, <<1610, 1620, 1609>>>>, <<64516, <<1610, 1620, 1610>>>>, <<64517, <<1576, 1580>>>>,
      <<64518, <<1576, 1581>>>>, <<64519, <<1576, 1582>>>>, <<64520, <<1576, 1605>>>>,
      <<64521, <<1576, 1609>>>>, <<64522, <<1576, 1610>>>>, <<64523, <<1578, 1580>>>>,
      <<64524, <<1578, 1581>>>>, <<64525, <<1578, 1582>>>>, <<64526, <<1578, 1605>>>>,
      <<64527, <<1578, 1609>>>>, <<64528, <<1578, 1610>>>>, <<64529, <<1579, 1580>>>>,
      <<64530, <<1579, 1605>>>>, <<64531, <<1579, 1609>>>>, <<64532, <<1579, 1610>>>>,
      <<64533, <<1580, 1581>>>>, <<64534, <<1580, 1605>>>>, <<64535, <<1581, 1580>>>>,
      <<64536, <<1581, 1605>>>>, <<64537, <<1582, 1580>>>>, <<64538, <<1582, 1581>>>>,
      <<64539, <<1582, 1605>>>>, <<64540, <<1587, 1580>>>>, <<64541, <<1587, 1581>>>>,
      <<64542, <<1587, 1582>>>>, <<64543, <<1587, 1605>>>>, <<64544, <<1589, 1581>>>>,
      <<64545, <<1589, 1605>>>>, <<64546, <<1590, 1580>>>>, <<64547, <<1590, 1581>>>>,
      <<64548, <<1590, 1582>>>>, <<64549, <<1590, 1605>>>>, <<64550, <<1591, 1581>>>>,
      <<64551, <<1591, 1605>>>>, <<64552, <<1592, 1605>>>>, <<64553, <<1593, 1580>>>>,
      <<64554, <<1593, 1605>>>>, <<64555, <<1594, 1580>>>>, <<64556, <<1594, 1605>>>>,
      <<64557, <<1601, 1580>>>>, <<64558, <<1601, 1581>>>>, <<64559, <<1601, 1582>>>>,
      <<64560, <<1601, 1605>>>>, <<64561, <<1601, 1609>>>>, <<64562, <<1601, 1610>>>>,
      <<64563, <<1602, 1581>>>>, <<64564, <<1602, 1605>>>>, <<64565, <<1602, 1609>>>>,
      <<64566, <<1602, 1610>>>>, <<64567, <<1603, 1575>>>>, <<64568, <<1603, 1580>>>>,
      <<64569, <<1603, 1581>>>>, <<64570, <<1603, 1582>>>>, <<64571, <<1603, 1604>>>>,
      <<64572, <<1603, 1605>>>>, <<64573, <<1603, 1609>>>>, <<64574, <<1603, 1610>>>>,
      <<64575, <<1604, 1580>>>>, <<64576, <<1604, 1581>>>>, <<64577, <<1604, 1582>>>>,
      <<64578, <<1604, 1605>>>>, <<64579, <<1604, 1609>>>>, <<64580, <<1604, 1610>>>>,
      <<64581, <<1605, 1580>>>>, <<64582, <<1605, 1581>>>>, <<64583, <<1605, 1582>>>>,
      <<64584, <<1605, 1605>>>>, <<64585, <<1605, 1609>>>>, <<64586, <<1605, 1610>>>>,
      <<64587, <<1606, 1580>>>>, <<64588, <<1606, 1581>>>>, <<64589, <<1606, 1582>>>>,
      <<64590, <<1606, 1605>>>>, <<64591, <<1606, 1609>>>>, <<64592, <<1606, 1610>>>>,
      <<64593, <<1607, 1580>>>>, <<64594, <<1607, 1605>>>>, <<64595, <<1607, 1609>>>>,
      <<64596, <<1607, 1610>>>>, <<64597, <<1610, 1580>>>>, <<64598, <<1610, 1581>>>>,
      <<64599, <<1610, 1582>>>>, <<64600, <<1610, 1605>>>>, <<64601, <<1610, 1609>>>>,
      <<64602, <<1610, 1610>>>>, <<64603, <<1584, 1648>>>>, <<64604, <<1585, 1648>>>>,
      <<64605, <<1609, 1648>>>>, <<64606, <<32, 1612, 1617>>>>, <<64607, <<32, 1613, 1617>>>>,
      <<64608, <<32, 1614, 1617>>>>, <<64609, <<32, 1615, 1617>>>>, <<64610, <<32, 1616, 1617>>>>,
      <<64611, <<32, 1617, 1648>>>>, <<64612, <<1610, 1620, 1585>>>>, <<64613, <<1610, 1620, 1586>>>>,
      <<64614, <<1610, 1620, 1605>>>>, <<64615, <<1610, 1620, 1606>>>>, <<64616, <<1610, 1620, 1609>>>>,
      <<64617, <<1610, 1620, 1610>>>>, <<64618, <<1576, 1585>>>>, <<64619, <<1576, 1586>>>>,
      <<64620, <<1576, 1605>>>>, <<64621, <<1576, 1606>>>>, <<64622, <<1576, 1609>>>>,
      <<64623, <<1576, 1610>>>>, <<64624, <<1578, 1585>>>>, <<64625, <<1578, 1586>>>>,
      <<64626, <<1578, 1605>>>>, <<64627, <<1578, 1606>>>>, <<64628, <<1578, 1609>>>>,
      <<64629, <<1578, 1610>>>>, <<64630, <<1579, 1585>>>>, <<64631, <<1579, 1586>>>>,
      <<64632, <<1579, 1605>>>>, <<64633, <<1579, 1606>>>>, <<64634, <<1579, 1609>>>>,
      <<64635, <<1579, 1610>>>>, <<64636, <<1601, 1609>>>>, <<64637, <<1601, 1610>>>>,
      <<64638, <<1602, 1609>>>>, <<64639, <<1602, 1610>>>>, <<64640, <<1603, 1575>>>>,
      <<64641, <<1603, 1604>>>>, <<64642, <<1603, 1605>>>>, <<64643, <<1603, 1609>>>>,
      <<64644, <<1603, 1610>>>>, <<64645, <<1604, 1605>>>>, <<64646, <<1604, 1609>>>>,
      <<64647, <<1604, 1610>>>>, <<64648, <<1605, 1575>>>>, <<64649, <<1605, 1605>>>>,
      <<64650, <<1606, 1585>>>>, <<64651, <<1606, 1586>>>>, <<64652, <<1606, 1605>>>>,
      <<64653, <<1606, 1606>>>>, <<64654, <<1606, 1609>>>>, <<64655, <<1606, 1610>>>>,
      <<64656, <<1609, 1648>>>>, <<64657, <<1610, 1585>>>>, <<64658, <<1610, 1586>>>>,
      <<64659, <<1610, 1605>>>>, <<64660, <<1610, 1606>>>>, <<64661, <<1610, 1609>>>>,
      <<64662, <<1610, 1610>>>>, <<64663, <<1610, 1620, 1580>>>>, <<64664, <<1610, 1620, 1581>>>>,
      <<64665, <<1610, 1620, 1582>>>>, <<64666, <<1610, 1620, 1605>>>>, <<64667, <<1610, 1620, 1607>>>>,
      <<64668, <<1576, 1580>>>>, <<64669, <<1576, 1581>>>>, <<64670, <<1576, 1582>>>>,
      <<64671, <<1576, 1605>>>>, <<64672, <<1576, 1607>>>>, <<64673, <<1578, 1580>>>>,
      <<64674, <<1578, 1581>>>>, <<64675, <<1578, 1582>>>>, <<64676, <<1578, 1605>>>>,
      <<64677, <<1578, 1607>>>>, <<64678, <<1579, 1605>>>>, <<64679, <<1580, 1581>>>>,
      <<64680, <<1580, 1605>>>>, <<64681, <<1581, 1580>>>>, <<64682, <<1581, 1605>>>>,
      <<64683, <<1582, 1580>>>>, <<64684, <<1582, 1605>>>>, <<64685, <<1587, 1580>>>>,
      <<64686, <<1587, 1581>>>>, <<64687, <<1587, 1582>>>>, <<64688, <<1587, 1605>>>>,
      <<64689, <<1589, 1581>>>>, <<64690, <<1589, 1582>>>>, <<64691, <<1589, 1605>>>>,
      <<64692, <<1590, 1580>>>>, <<64693, <<1590, 1581>>>>, <<64694, <<1590, 1582>>>>,
      <<64695, <<1590, 1605>>>>, <<64696, <<1591, 1581>>>>, <<64697, <<1592, 1605>>>>,
      <<64698, <<1593, 1580>>>>, <<64699, <<1593, 1605>>>>, <<64700, <<1594, 1580>>>>,
      <<64701, <<1594, 1605>>>>, <<64702, <<1601, 1580>>>>, <<64703, <<1601, 1581>>>>,
      <<64704, <<1601, 1582>>>>, <<64705, <<1601, 1605>>>>, <<64706, <<1602, 1581>>>>,
      <<64707, <<1602, 1605>>>>, <<64708, <<1603, 1580>>>>, <<64709, <<1603, 1581>>>>,
      <<64710, <<1603, 1582>>>>, <<64711, <<1603, 1604>>>>, <<64712, <<1603, 1605>>>>,
      <<64713, <<1604, 1580>>>>, <<64714, <<1604, 1581>>>>, <<64715, <<1604, 1582>>>>,
      <<64716, <<1604, 1605>>>>, <<64717, <<1604, 1607>>>>, <<64718, <<1605, 1580>>>>,
      <<64719, <<1605, 1581>>>>, <<64720, <<1605, 1582>>>>, <<64721, <<1605, 1605>>>>,
      <<64722, <<1606, 1580>>>>, <<64723, <<1606, 1581>>>>, <<64724, <<1606, 1582>>>>,
      <<64725, <<1606, 1605>>>>, <<64726, <<1606, 1607>>>>, <<64727, <<1607, 1580>>>>,
      <<64728, <<1607, 1605>>>>, <<64729, <<1607, 1648>>>>, <<64730, <<1610, 1580>>>>,
      <<64731, <<1610, 1581>>>>, <<64732, <<1610, 1582>>>>, <<64733, <<1610, 1605>>>>,
      <<64734, <<1610, 1607>>>>, <<64735, <<1610, 1620, 1605>>>>, <<64736, <<1610, 1620, 1607>>>>,
      <<64737, <<1576, 1605>>>>, <<64738, <<1576, 1607>>>>, <<64739, <<1578, 1605>>>>,
      <<64740, <<1578, 1607>>>>, <<64741, <<1579, 1605>>>>, <<64742, <<1579, 1607>>>>,
      <<64743, <<1587, 1605>>>>, <<64744, <<1587, 1607>>>>, <<64745, <<1588, 1605>>>>,
      <<64746, <<1588, 1607>>>>, <<64747, <<1603, 1604>>>>, <<64748, <<1603, 1605>>>>,
      <<64749, <<1604, 1605>>>>, <<64750, <<1606, 1605>>>>, <<64751, <<1606, 1607>>>>,
      <<64752, <<1610, 1605>>>>, <<64753, <<1610, 1607>>>>, <<64754, <<1600, 1614, 1617>>>>,
      <<64755, <<1600, 1615, 1617>>>>, <<64756, <<1600, 1616, 1617>>>>, <<64757, <<1591, 1609>>>>,
      <<64758, <<1591, 1610>>>>, <<64759, <<1593, 1609>>>>, <<64760, <<1593, 1610>>>>,
      <<64761, <<1594, 1609>>>>, <<64762, <<1594, 1610>>>>, <<64763, <<1587, 1609>>>>,
      <<64764, <<1587, 1610>>>>, <<64765, <<1588, 1609>>>>, <<64766, <<1588, 1610>>>>,
      <<64767, <<1581, 1609>>>>, <<64768, <<1581, 1610>>>>, <<64769, <<1580, 1609>>>>,
      <<64770, <<1580, 1610>>>>, <<64771, <<1582, 1609>>>>, <<64772, <<1582, 1610>>>>,
      <<64773, <<1589, 1609>>>>, <<64774, <<1589, 1610>>>>, <<64775, <<1590, 1609>>>>,
      <<64776, <<1590, 1610>>>>, <<64777, <<1588, 1580>>>>, <<64778, <<1588, 1581>>>>,
      <<64779, <<1588, 1582>>>>, <<64780, <<1588, 1605>>>>, <<64781, <<1588, 1585>>>>,
      <<64782, <<1587, 1585>>>>, <<64783, <<1589, 1585>>>>, <<64784, <<1590, 1585>>>>,
      <<64785, <<1591, 1609>>>>, <<64786, <<1591, 1610>>>>, <<64787, <<1593, 1609>>>>,
      <<64788, <<1593, 1610>>>>, <<64789, <<1594, 1609>>>>, <<64790, <<1594, 1610>>>>,
      <<64791, <<1587, 1609>>>>, <<64792, <<1587, 1610>>>>, <<64793, <<1588, 1609>>>>,
      <<64794, <<1588, 1610>>>>, <<64795, <<1581, 1609>>>>, <<64796, <<1581, 1610>>>>,
      <<64797, <<1580, 1609>>>>, <<64798, <<1580, 1610>>>>, <<64799, <<1582, 1609>>>>,
      <<64800, <<1582, 1610>>>>, <<64801, <<1589, 1609>>>>, <<64802, <<1589, 1610>>>>,
      <<64803, <<1590, 1609>>>>, <<64804, <<1590, 1610>>>>, <<64805, <<1588, 1580>>>>,
      <<64806, <<1588, 1581>>>>, <<64807, <<1588, 1582>>>>, <<64808, <<1588, 1605>>>>,
      <<64809, <<1588, 1585>>>>, <<64810, <<1587, 1585>>>>, <<64811, <<1589, 1585>>>>,
      <<64812, <<1590, 1585>>>>, <<64813, <<1588, 1580>>>>, <<64814, <<1588, 1581>>>>,
      <<64815, <<1588, 1582>>>>, <<64816, <<1588, 1605>>>>, <<64817, <<1587, 1607>>>>,
      <<64818, <<1588, 1607>>>>, <<64819, <<1591, 1605>>>>, <<64820, <<1587, 1580>>>>,
      <<64821, <<1587, 1581>>>>, <<64822, <<1587, 1582>>>>, <<64823, <<1588, 1580>>>>,
      <<64824, <<1588, 1581>>>>, <<64825, <<1588, 1582>>>>, <<64826, <<1591, 1605>>>>,
      <<64827, <<1592, 1605>>>>, <<64828, <<1575, 1611>>>>, <<64829, <<1575, 1611>>>>,
      <<64848, <<1578, 1580, 1605>>>>, <<64849, <<1578, 1581, 1580>>>>, <<64850, <<1578, 1581, 1580>>>>,
      <<64851, <<1578, 1581, 1605>>>>, <<64852, <<1578, 1582, 1605>>>>, <<64853, <<1578, 1605, 1580>>>>,
      <<64854, <<1578, 1605, 1581>>>>, <<64855, <<1578, 1605, 1582>>>>, <<64856, <<1580, 1605, 1581>>>>,
      <<64857, <<1580, 1605, 1581>>>>, <<64858, <<1581, 1605, 1610>>>>, <<64859, <<1581, 1605, 1609>>>>,
      <<64860, <<1587, 1581, 1580>>>>, <<64861, <<1587, 1580, 1581>>>>, <<64862, <<1587, 1580, 1609>>>>,
      <<64863, <<1587, 1605, 1581>>>>, <<64864, <<1587, 1605, 1581>>>>, <<64865, <<1587, 1605, 1580>>>>,
      <<64866, <<1587, 1605, 1605>>>>, <<64867, <<1587, 1605, 1605>>>>, <<64868, <<1589, 1581, 1581>>>>,
      <<64869, <<1589, 1581, 1581>>>>, <<64870, <<1589, 1605, 1605>>>>, <<64871, <<1588, 1581, 1605>>>>,
      <<64872, <<1588, 1581, 1605>>>>, <<64873, <<1588, 1580, 1610>>>>, <<64874, <<1588, 1605, 1582>>>>,
      <<64875, <<1588, 1605, 1582>>>>, <<64876, <<1588, 1605, 1605>>>>, <<64877, <<1588, 1605, 1605>>>>,
      <<64878, <<1590, 1581, 1609>>>>, <<64879, <<1590, 1582, 1605>>>>, <<64880, <<1590, 1582, 1605>>>>,
      <<64881, <<1591, 1605, 1581>>>>, <<64882, <<1591, 1605, 1581>>>>, <<64883, <<1591, 1605, 1605>>>>,
      <<64884, <<1591, 1605, 1610>>>>, <<64885, <<1593, 1580, 1605>>>>, <<64886, <<1593, 1605, 1605>>>>,
      <<64887, <<1593, 1605, 1605>>>>, <<64888, <<1593, 1605, 1609>>>>, <<64889, <<1594, 1605, 1605>>>>,
      <<64890, <<1594, 1605, 1610>>>>, <<64891, <<1594, 1605, 1609>>>>, <<64892, <<1601, 1582, 1605>>>>,
      <<64893, <<1601, 1582, 1605>>>>, <<64894, <<1602, 1605, 1581>>>>, <<64895, <<1602, 1605, 1605>>>>,
      <<64896, <<1604, 1581, 1605>>>>, <<64897, <<1604, 1581, 1610>>>>, <<64898, <<1604, 1581, 1609>>>>,
      <<64899, <<1604, 1580, 1580>>>>, <<64900, <<1604, 1580, 1580>>>>, <<64901, <<1604, 1582, 1605>>>>,
      <<64902, <<1604, 1582, 1605>>>>, <<64903, <<1604, 1605, 1581>>>>, <<64904, <<1604, 1605, 1581>>>>,
      <<64905, <<1605, 1581, 1580>>>>, <<64906, <<1605, 1581, 1605>>>>, <<64907, <<1605, 1581, 1610>>>>,
      <<64908, <<1605, 1580, 1581>>>>, <<64909, <<1605, 1580, 1605>>>>, <<64910, <<1605, 1582, 1580>>>>,
      <<64911, <<1605, 1582, 1605>>>>, <<64914, <<1605, 1580, 1582>>>>, <<64915, <<1607, 1605, 1580>>>>,
      <<64916, <<1607, 1605, 1605>>>>, <<64917, <<1606, 1581, 1605>>>>, <<64918, <<1606, 1581, 1609>>>>,
      <<64919, <<1606, 1580, 1605>>>>, <<64920, <<1606, 1580, 1605>>>>, <<64921, <<1606, 1580, 1609>>>>,
      <<64922, <<1606, 1605, 1610>>>>, <<64923, <<1606, 1605, 1609>>>>, <<64924, <<1610, 1605, 1605>>>>,
      <<64925, <<1610, 1605, 1605>>>>, <<64926, <<1576, 1582, 1610>>>>, <<64927, <<1578, 1580, 1610>>>>,
      <<64928, <<1578, 1580, 1609>>>>, <<64929, <<1578, 1582, 1610>>>>, <<64930, <<1578, 1582, 1609>>>>,
      <<64931, <<1578, 1605, 1610>>>>, <<64932, <<1578, 1605, 1609>>>>, <<64933, <<1580, 1605, 1610>>>>,
      <<64934, <<1580, 1581, 1609>>>>, <<64935, <<1580, 1605, 1609>>>>, <<64936, <<1587, 1582, 1609>>>>,
      <<64937, <<1589, 1581, 1610>>>>, <<64938, <<1588, 1581, 1610>>>>, <<64939, <<1590, 1581, 1610>>>>,
      <<64940, <<1604, 1580, 1610>>>>, <<64941, <<1604, 1605, 1610>>>>, <<64942, <<1610, 1581, 1610>>>>,
      <<64943, <<1610, 1580, 1610>>>>, <<64944, <<1610, 1605, 1610>>>>, <<64945, <<1605, 1605, 1610>>>>,
      <<64946, <<1602, 1605, 1610>>>>, <<64947, <<1606, 1581, 1610>>>>, <<64948, <<1602, 1605, 1581>>>>,
      <<64949, <<1604, 1581, 1605>>>>, <<64950, <<1593, 1605, 1610>>>>, <<64951, <<1603, 1605, 1610>>>>,
      <<64952, <<1606, 1580, 1581>>>>, <<64953, <<1605, 1582, 1610>>>>, <<64954, <<1604, 1580, 1605>>>>,
      <<64955, <<1603, 1605, 1605>>>>, <<64956, <<1604, 1580, 1605>>>>, <<64957, <<1606, 1580, 1581>>>>,
      <<64958, <<1580, 1581, 1610>>>>, <<64959, <<1581, 1580, 1610>>>>, <<64960, <<1605, 1580, 1610>>>>,
      <<64961, <<1601, 1605, 1610>>>>, <<64962, <<1576, 1581, 1610>>>>, <<64963, <<1603, 1605, 1605>>>>,
      <<64964, <<1593, 1580, 1605>>>>, <<64965, <<1589, 1605, 1605>>>>, <<64966, <<1587, 1582, 1610>>>>,
      <<64967, <<1606, 1580, 1610>>>>, <<65008, <<1589, 1604, 1746>>>>, <<65009, <<1602, 1604, 1746>>>>,
      <<65010, <<1575, 1604, 1604, 1607>>>>, <<65011, <<1575, 1603, 1576, 1585>>>>,
      <<65012, <<1605, 1581, 1605, 1583>>>>, <<65013, <<1589, 1604, 1593, 1605>>>>,
      <<65014, <<1585, 1587, 1608, 1604>>>>, <<65015, <<1593, 1604, 1610, 1607>>>>,
      <<65016, <<1608, 1587, 1604, 1605>>>>, <<65017, <<1589, 1604, 1609>>>>,
      <<65018, <<1589, 1604, 1609, 32, 1575, 1604, 1604, 1607, 32, 1593, 1604, 1610, 1607, 32, 1608, 1587, 1604, 1605>>>>,
      <<65019, <<1580, 1604, 32, 1580, 1604, 1575, 1604, 1607>>>>, <<65020, <<1585, 1740, 1575, 1604>>>>,
      <<65040, <<44>>>>, <<65041, <<12289>>>>, <<65042, <<12290>>>>, <<65043, <<58>>>>, <<65044, <<59>>>>,
      <<65045, <<33>>>>, <<65046, <<63>>>>, <<65047, <<12310>>>>, <<65048, <<12311>>>>,
      <<65049, <<46, 46, 46>>>>, <<65072, <<46, 46>>>>, <<65073, <<8212>>>>, <<65074, <<8211>>>>,
      <<65075, <<95>>>>, <<65076, <<95>>>>, <<65077, <<40>>>>, <<65078, <<41>>>>, <<65079, <<123>>>>,
      <<65080, <<125>>>>, <<65081, <<12308>>>>, <<65082, <<12309>>>>, <<65083, <<12304>>>>,
      <<65084, <<12305>>>>, <<65085, <<12298>>>>, <<65086, <<12299>>>>, <<65087, <<12296>>>>,
      <<65088, <<12297>>>>, <<65089, <<12300>>>>, <<65090, <<12301>>>>, <<65091, <<12302>>>>,
      <<65092, <<12303>>>>, <<65095, <<91>>>>, <<65096, <<93>>>>, <<65097, <<32, 773>>>>,
      <<65098, <<32, 773>>>>, <<65099, <<32, 773>>>>, <<65100, <<32, 773>>>>, <<65101, <<95>>>>,
      <<65102, <<95>>>>, <<65103, <<95>>>>, <<65104, <<44>>>>, <<65105, <<12289>>>>, <<65106, <<46>>>>,
      <<65108, <<59>>>>, <<65109, <<58>>>>, <<65110, <<63>>>>, <<65111, <<33>>>>, <<65112, <<8212>>>>,
      <<65113, <<40>>>>, <<65114, <<41>>>>, <<65115, <<123>>>>, <<65116, <<125>>>>, <<65117, <<12308>>>>,
      <<65118, <<12309>>>>, <<65119, <<35>>>>, <<65120, <<38>>>>, <<65121, <<42>>>>, <<65122, <<43>>>>,
      <<65123, <<45>>>>, <<65124, <<60>>>>, <<65125, <<62>>>>, <<65126, <<61>>>>, <<65128, <<92>>>>,
      <<65129, <<36>>>>, <<65130, <<37>>>>, <<65131, <<64>>>>, <<65136, <<32, 1611>>>>,
      <<65137, <<1600, 1611>>>>, <<65138, <<32, 1612>>>>, <<65140, <<32, 1613>>>>, <<65142, <<32, 1614>>>>,
      <<65143, <<1600, 1614>>>>, <<65144, <<32, 1615>>>>, <<65145, <<1600, 1615>>>>, <<65146, <<32, 1616>>>>,
      <<65147, <<1600, 1616>>>>, <<65148, <<32, 1617>>>>, <<65149, <<1600, 1617>>>>, <<65150, <<32, 1618>>>>,
      <<65151, <<1600, 1618>>>>, <<65152, <<1569>>>>, <<65153, <<1575, 1619>>>>, <<65154, <<1575, 1619>>>>,
      <<65155, <<1575, 1620>>>>, <<65156, <<1575, 1620>>>>, <<65157, <<1608, 1620>>>>,
      <<65158, <<1608, 1620>>>>, <<65159, <<1575, 1621>>>>, <<65160, <<1575, 1621>>>>,
      <<65161, <<1610, 1620>>>>, <<65162, <<1610, 1620>>>>, <<65163, <<1610, 1620>>>>,
      <<65164, <<1610, 1620>>>>, <<65165, <<1575>>>>, <<65166, <<1575>>>>, <<65167, <<1576>>>>,
      <<65168, <<1576>>>>, <<65169, <<1576>>>>, <<65170, <<1576>>>>, <<65171, <<1577>>>>,
      <<65172, <<1577>>>>, <<65173, <<1578>>>>, <<65174, <<1578>>>>, <<65175, <<1578>>>>,
      <<65176, <<1578>>>>, <<65177, <<1579>>>>, <<65178, <<1579>>>>, <<65179, <<1579>>>>,
      <<65180, <<1579>>>>, <<65181, <<1580>>>>, <<65182, <<1580>>>>, <<65183, <<1580>>>>,
      <<65184, <<1580>>>>, <<65185, <<1581>>>>, <<65186, <<1581>>>>, <<65187, <<1581>>>>,
      <<65188, <<1581>>>>, <<65189, <<1582>>>>, <<65190, <<1582>>>>, <<65191, <<1582>>>>,
      <<65192, <<1582>>>>, <<65193, <<1583>>>>, <<65194, <<1583>>>>, <<65195, <<1584>>>>,
      <<65196, <<1584>>>>, <<65197, <<1585>>>>, <<65198, <<1585>>>>, <<65199, <<1586>>>>,
      <<65200, <<1586>>>>, <<65201, <<1587>>>>, <<65202, <<1587>>>>, <<65203, <<1587>>>>,
      <<65204, <<1587>>>>, <<65205, <<1588>>>>, <<65206, <<1588>>>>, <<65207, <<1588>>>>,
      <<65208, <<1588>>>>, <<65209, <<1589>>>>, <<65210, <<1589>>>>, <<65211, <<1589>>>>,
      <<65212, <<1589>>>>, <<65213, <<1590>>>>, <<65214, <<1590>>>>, <<65215, <<1590>>>>,
      <<65216, <<1590>>>>, <<65217, <<1591>>>>, <<65218, <<1591>>>>, <<65219, <<1591>>>>,
      <<65220, <<1591>>>>, <<65221, <<1592>>>>, <<65222, <<1592>>>>, <<65223, <<1592>>>>,
      <<65224, <<1592>>>>, <<65225, <<1593>>>>, <<65226, <<1593>>>>, <<65227, <<1593>>>>,
      <<65228, <<1593>>>>, <<65229, <<1594>>>>, <<65230, <<1594>>>>, <<65231, <<1594>>>>,
      <<65232, <<1594>>>>, <<65233, <<1601>>>>, <<65234, <<1601>>>>, <<65235, <<1601>>>>,
      <<65236, <<1601>>>>, <<65237, <<1602>>>>, <<65238, <<1602>>>>, <<65239, <<1602>>>>,
      <<65240, <<1602>>>>, <<65241, <<1603>>>>, <<65242, <<1603>>>>, <<65243, <<1603>>>>,
      <<65244, <<1603>>>>, <<65245, <<1604>>>>, <<65246, <<1604>>>>, <<65247, <<1604>>>>,
      <<65248, <<1604>>>>, <<65249, <<1605>>>>, <<65250, <<1605>>>>, <<65251, <<1605>>>>,
      <<65252, <<1605>>>>, <<65253, <<1606>>>>, <<65254, <<1606>>>>, <<65255, <<1606>>>>,
      <<65256, <<1606>>>>, <<65257, <<1607>>>>, <<65258, <<1607>>>>, <<65259, <<1607>>>>,
      <<65260, <<1607>>>>, <<65261, <<1608>>>>, <<65262, <<1608>>>>, <<65263, <<1609>>>>,
      <<65264, <<1609>>>>, <<65265, <<1610>>>>, <<65266, <<1610>>>>, <<65267, <<1610>>>>,
      <<65268, <<1610>>>>, <<65269, <<1604, 1575, 1619>>>>, <<65270, <<1604, 1575, 1619>>>>,
      <<65271, <<1604, 1575, 1620>>>>, <<65272, <<1604, 1575, 1620>>>>, <<65273, <<1604, 1575, 1621>>>>,
      <<65274, <<1604, 1575, 1621>>>>, <<65275, <<1604, 1575>>>>, <<65276, <<1604, 1575>>>>,
      <<65281, <<33>>>>, <<65282, <<34>>>>, <<65283, <<35>>>>, <<65284, <<36>>>>, <<65285, <<37>>>>,
      <<65286, <<38>>>>, <<65287, <<39>>>>, <<65288, <<40>>>>, <<65289, <<41>>>>, <<65290, <<42>>>>,
      <<65291, <<43>>>>, <<65292, <<44>>>>, <<65293, <<45>>>>, <<65294, <<46>>>>, <<65295, <<47>>>>,
      <<65296, <<48>>>>, <<65297, <<49>>>>, <<65298, <<50>>>>, <<65299, <<51>>>>, <<65300, <<52>>>>,
      <<65301, <<53>>>>, <<65302, <<54>>>>, <<65303, <<55>>>>, <<65304, <<56>>>>, <<65305, <<57>>>>,
      <<65306, <<58>>>>, <<65307, <<59>>>>, <<65308, <<60>>>>, <<65309, <<61>>>>, <<65310, <<62>>>>,
      <<65311, <<63>>>>, <<65312, <<64>>>>, <<65313, <<65>>>>, <<65314, <<66>>>>, <<65315, <<67>>>>,
      <<65316, <<68>>>>, <<65317, <<69>>>>, <<65318, <<70>>>>, <<65319, <<71>>>>, <<65320, <<72>>>>,
      <<65321, <<73>>>>, <<65322, <<74>>>>, <<65323, <<75>>>>, <<65324, <<76>>>>, <<65325, <<77>>>>,
      <<65326, <<78>>>>, <<65327, <<79>>>>, <<65328, <<80>>>>, <<65329, <<81>>>>, <<65330, <<82>>>>,
      <<65331, <<83>>>>, <<65332, <<84>>>>, <<65333, <<85>>>>, <<65334, <<86>>>>, <<65335, <<87>>>>,
      <<65336, <<88>>>>, <<65337, <<89>>>>, <<65338, <<90>>>>, <<65339, <<91>>>>, <<65340, <<92>>>>,
      <<65341, <<93>>>>, <<65342, <<94>>>>, <<65343, <<95>>>>, <<65344, <<96>>>>, <<65345, <<97>>>>,
      <<65346, <<98>>>>, <<65347, <<99>>>>, <<65348, <<100>>>>, <<65349, <<101>>>>, <<65350, <<102>>>>,
      <<65351, <<103>>>>, <<65352, <<104>>>>, <<65353, <<105>>>>, <<65354, <<106>>>>, <<65355, <<107>>>>,
      <<65356, <<108>>>>, <<65357, <<109>>>>, <<65358, <<110>>>>, <<65359, <<111>>>>, <<65360, <<112>>>>,
      <<65361, <<113>>>>, <<65362, <<114>>>>, <<65363, <<115>>>>, <<65364, <<116>>>>, <<65365, <<117>>>>,
      <<65366, <<118>>>>, <<65367, <<119>>>>, <<65368, <<120>>>>, <<65369, <<121>>>>, <<65370, <<122>>>>,
      <<65371, <<123>>>>, <<65372, <<124>>>>, <<65373, <<125>>>>, <<65374, <<126>>>>, <<65375, <<10629>>>>,
      <<65376, <<10630>>>>, <<65377, <<12290>>>>, <<65378, <<12300>>>>, <<65379, <<12301>>>>,
      <<65380, <<12289>>>>, <<65381, <<12539>>>>, <<65382, <<12530>>>>, <<65383, <<12449>>>>,
      <<65384, <<12451>>>>, <<65385, <<12453>>>>, <<65386, <<12455>>>>, <<65387, <<12457>>>>,
      <<65388, <<12515>>>>, <<65389, <<12517>>>>, <<65390, <<12519>>>>, <<65391, <<12483>>>>,
      <<65392, <<12540>>>>, <<65393, <<12450>>>>, <<65394, <<12452>>>>, <<65395, <<12454>>>>,
      <<65396, <<12456>>>>, <<65397, <<12458>>>>, <<65398, <<12459>>>>, <<65399, <<12461>>>>,
      <<65400, <<12463>>>>, <<65401, <<12465>>>>, <<65402, <<12467>>>>, <<65403, <<12469>>>>,
      <<65404, <<12471>>>>, <<65405, <<12473>>>>, <<65406, <<12475>>>>, <<65407, <<12477>>>>,
      <<65408, <<12479>>>>, <<65409, <<12481>>>>, <<65410, <<12484>>>>, <<65411, <<12486>>>>,
      <<65412, <<12488>>>>, <<65413, <<12490>>>>, <<65414, <<12491>>>>, <<65415, <<12492>>>>,
      <<65416, <<12493>>>>, <<65417, <<12494>>>>, <<65418, <<12495>>>>, <<65419, <<12498>>>>,
      <<65420, <<12501>>>>, <<65421, <<12504>>>>, <<65422, <<12507>>>>, <<65423, <<12510>>>>,
      <<65424, <<12511>>>>, <<65425, <<12512>>>>, <<65426, <<12513>>>>, <<65427, <<12514>>>>,
      <<65428, <<12516>>>>, <<65429, <<12518>>>>, <<65430, <<12520>>>>, <<65431, <<12521>>>>,
      <<65432, <<12522>>>>, <<65433, <<12523>>>>, <<65434, <<12524>>>>, <<65435, <<12525>>>>,
      <<65436, <<12527>>>>, <<65437, <<12531>>>>, <<65438, <<12441>>>>, <<65439, <<12442>>>>,
      <<65440, <<4448>>>>, <<65441, <<4352>>>>, <<65442, <<4353>>>>, <<65443, <<4522>>>>,
      <<65444, <<4354>>>>, <<65445, <<4524>>>>, <<65446, <<4525>>>>, <<65447, <<4355>>>>,
      <<65448, <<4356>>>>, <<65449, <<4357>>>>, <<65450, <<4528>>>>, <<65451, <<4529>>>>,
      <<65452, <<4530>>>>, <<65453, <<4531>>>>, <<65454, <<4532>>>>, <<65455, <<4533>>>>,
      <<65456, <<4378>>>>, <<65457, <<4358>>>>, <<65458, <<4359>>>>, <<65459, <<4360>>>>,
      <<65460, <<4385>>>>, <<65461, <<4361>>>>, <<65462, <<4362>>>>, <<65463, <<4363>>>>,
      <<65464, <<4364>>>>, <<65465, <<4365>>>>, <<65466, <<4366>>>>, <<65467, <<4367>>>>,
      <<65468, <<4368>>>>, <<65469, <<4369>>>>, <<65470, <<4370>>>>, <<65474, <<4449>>>>,
      <<65475, <<4450>>>>, <<65476, <<4451>>>>, <<65477, <<4452>>>>, <<65478, <<4453>>>>,
      <<65479, <<4454>>>>, <<65482, <<4455>>>>, <<65483, <<4456>>>>, <<65484, <<4457>>>>,
      <<65485, <<4458>>>>, <<65486, <<4459>>>>, <<65487, <<4460>>>>, <<65490, <<4461>>>>,
      <<65491, <<4462>>>>, <<65492, <<4463>>>>, <<65493, <<4464>>>>, <<65494, <<4465>>>>,
      <<65495, <<4466>>>>, <<65498, <<4467>>>>, <<65499, <<4468>>>>, <<65500, <<4469>>>>, <<65504, <<162>>>>,
      <<65505, <<163>>>>, <<65506, <<172>>>>, <<65507, <<32, 772>>>>, <<65508, <<166>>>>, <<65509, <<165>>>>,
      <<65510, <<8361>>>>, <<65512, <<9474>>>>, <<65513, <<8592>>>>, <<65514, <<8593>>>>,
      <<65515, <<8594>>>>, <<65516, <<8595>>>>, <<65517, <<9632>>>>, <<65518, <<9675>>>>, <<67457, <<720>>>>,
      <<67458, <<721>>>>, <<67459, <<230>>>>, <<67460, <<665>>>>, <<67461, <<595>>>>, <<67463, <<675>>>>,
      <<67464, <<43878>>>>, <<67465, <<677>>>>, <<67466, <<676>>>>, <<67467, <<598>>>>, <<67468, <<599>>>>,
      <<67469, <<7569>>>>, <<67470, <<600>>>>, <<67471, <<606>>>>, <<67472, <<681>>>>, <<67473, <<612>>>>,
      <<67474, <<610>>>>, <<67475, <<608>>>>, <<67476, <<667>>>>, <<67477, <<295>>>>, <<67478, <<668>>>>,
      <<67479, <<615>>>>, <<67480, <<644>>>>, <<67481, <<682>>>>, <<67482, <<683>>>>, <<67483, <<620>>>>,
      <<67484, <<122628>>>>, <<67485, <<42894>>>>, <<67486, <<622>>>>, <<67487, <<122629>>>>,
      <<67488, <<654>>>>, <<67489, <<122630>>>>, <<67490, <<248>>>>, <<67491, <<630>>>>, <<67492, <<631>>>>,
      <<67493, <<113>>>>, <<67494, <<634>>>>, <<67495, <<122632>>>>, <<67496, <<637>>>>, <<67497, <<638>>>>,
      <<67498, <<640>>>>, <<67499, <<680>>>>, <<67500, <<678>>>>, <<67501, <<43879>>>>, <<67502, <<679>>>>,
      <<67503, <<648>>>>, <<67504, <<11377>>>>, <<67506, <<655>>>>, <<67507, <<673>>>>, <<67508, <<674>>>>,
      <<67509, <<664>>>>, <<67510, <<448>>>>, <<67511, <<449>>>>, <<67512, <<450>>>>, <<67513, <<122634>>>>,
      <<67514, <<122654>>>>, <<69786, <<69785, 69818>>>>, <<69788, <<69787, 69818>>>>,
      <<69803, <<69797, 69818>>>>, <<69934, <<69937, 69927>>>>, <<69935, <<69938, 69927>>>>,
      <<70475, <<70471, 70462>>>>, <<70476, <<70471, 70487>>>>, <<70843, <<70841, 70842>>>>,
      <<70844, <<70841, 70832>>>>, <<70846, <<70841, 70845>>>>, <<71098, <<71096, 71087>>>>,
      <<71099, <<71097, 71087>>>>, <<71992, <<71989, 71984>>>>, <<119134, <<119127, 119141>>>>,
      <<119135, <<119128, 119141>>>>, <<119136, <<119128, 119141, 119150>>>>,
      <<119137, <<119128, 119141, 119151>>>>, <<119138, <<119128, 119141, 119152>>>>,
      <<119139, <<119128, 119141, 119153>>>>, <<119140, <<119128, 119141, 119154>>>>,
      <<119227, <<119225, 119141>>>>, <<119228, <<119226, 119141>>>>, <<119229, <<119225, 119141, 119150>>>>,
      <<119230, <<119226, 119141, 119150>>>>, <<119231, <<119225, 119141, 119151>>>>,
      <<119232, <<119226, 119141, 119151>>>>, <<119808, <<65>>>>, <<119809, <<66>>>>, <<119810, <<67>>>>,
      <<119811, <<68>>>>, <<119812, <<69>>>>, <<119813, <<70>>>>, <<119814, <<71>>>>, <<119815, <<72>>>>,
      <<119816, <<73>>>>, <<119817, <<74>>>>, <<119818, <<75>>>>, <<119819, <<76>>>>, <<119820, <<77>>>>,
      <<119821, <<78>>>>, <<119822, <<79>>>>, <<119823, <<80>>>>, <<119824, <<81>>>>, <<119825, <<82>>>>,
      <<119826, <<83>>>>, <<119827, <<84>>>>, <<119828, <<85>>>>, <<119829, <<86>>>>, <<119830, <<87>>>>,
      <<119831, <<88>>>>, <<119832, <<89>>>>, <<119833, <<90>>>>, <<119834, <<97>>>>, <<119835, <<98>>>>,
      <<119836, <<99>>>>, <<119837, <<100>>>>, <<119838, <<101>>>>, <<119839, <<102>>>>, <<119840, <<103>>>>,
      <<119841, <<104>>>>, <<119842, <<105>>>>, <<119843, <<106>>>>, <<119844, <<107>>>>,
      <<119845, <<108>>>>, <<119846, <<109>>>>, <<119847, <<110>>>>, <<119848, <<111>>>>,
      <<119849, <<112>>>>, <<119850, <<113>>>>, <<119851, <<114>>>>, <<119852, <<115>>>>,
      <<119853, <<116>>>>, <<119854, <<117>>>>, <<119855, <<118>>>>, <<119856, <<119>>>>,
      <<119857, <<120>>>>, <<119858, <<121>>>>, <<119859, <<122>>>>, <<119860, <<65>>>>, <<119861, <<66>>>>,
      <<119862, <<67>>>>, <<119863, <<68>>>>, <<119864, <<69>>>>, <<119865, <<70>>>>, <<119866, <<71>>>>,
      <<119867, <<72>>>>, <<119868, <<73>>>>, <<119869, <<74>>>>, <<119870, <<75>>>>, <<119871, <<76>>>>,
      <<119872, <<77>>>>, <<119873, <<78>>>>, <<119874, <<79>>>>, <<119875, <<80>>>>, <<119876, <<81>>>>,
      <<119877, <<82>>>>, <<119878, <<83>>>>, <<119879, <<84>>>>, <<119880, <<85>>>>, <<119881, <<86>>>>,
      <<119882, <<87>>>>, <<119883, <<88>>>>, <<119884, <<89>>>>, <<119885, <<90>>>>, <<119886, <<97>>>>,
      <<119887, <<98>>>>, <<119888, <<99>>>>, <<119889, <<100>>>>, <<119890, <<101>>>>, <<119891, <<102>>>>,
      <<119892, <<103>>>>, <<119894, <<105>>>>, <<119895, <<106>>>>, <<119896, <<107>>>>,
      <<119897, <<108>>>>, <<119898, <<109>>>>, <<119899, <<110>>>>, <<119900, <<111>>>>,
      <<119901, <<112>>>>, <<119902, <<113>>>>, <<119903, <<114>>>>, <<119904, <<115>>>>,
      <<119905, <<116>>>>, <<119906, <<117>>>>, <<119907, <<118>>>>, <<119908, <<119>>>>,
      <<119909, <<120>>>>, <<119910, <<121>>>>, <<119911, <<122>>>>, <<119912, <<65>>>>, <<119913, <<66>>>>,
      <<119914, <<67>>>>, <<119915, <<68>>>>, <<119916, <<69>>>>, <<119917, <<70>>>>, <<119918, <<71>>>>,
      <<119919, <<72>>>>, <<119920, <<73>>>>, <<119921, <<74>>>>, <<119922, <<75>>>>, <<119923, <<76>>>>,
      <<119924, <<77>>>>, <<119925, <<78>>>>, <<119926, <<79>>>>, <<119927, <<80>>>>, <<119928, <<81>>>>,
      <<119929, <<82>>>>, <<119930, <<83>>>>, <<119931, <<84>>>>, <<119932, <<85>>>>, <<119933, <<86>>>>,
      <<119934, <<87>>>>, <<119935, <<88>>>>, <<119936, <<89>>>>, <<119937, <<90>>>>, <<119938, <<97>>>>,
      <<119939, <<98>>>>, <<119940, <<99>>>>, <<119941, <<100>>>>, <<119942, <<101>>>>, <<119943, <<102>>>>,
      <<119944, <<103>>>>, <<119945, <<104>>>>, <<119946, <<105>>>>, <<119947, <<106>>>>,
      <<119948, <<107>>>>, <<119949, <<108>>>>, <<119950, <<109>>>>, <<119951, <<110>>>>,
      <<119952, <<111>>>>, <<119953, <<112>>>>, <<119954, <<113>>>>, <<119955, <<114>>>>,
      <<119956, <<115>>>>, <<119957, <<116>>>>, <<119958, <<117>>>>, <<119959, <<118>>>>,
      <<119960, <<119>>>>, <<119961, <<120>>>>, <<119962, <<121>>>>, <<119963, <<122>>>>, <<119964, <<65>>>>,
      <<119966, <<67>>>>, <<119967, <<68>>>>, <<119970, <<71>>>>, <<119973, <<74>>>>, <<119974, <<75>>>>,
      <<119977, <<78>>>>, <<119978, <<79>>>>, <<119979, <<80>>>>, <<119980, <<81>>>>, <<119982, <<83>>>>,
      <<119983, <<84>>>>, <<119984, <<85>>>>, <<119985, <<86>>>>, <<119986, <<87>>>>, <<119987, <<88>>>>,
      <<119988, <<89>>>>, <<119989, <<90>>>>, <<119990, <<97>>>>, <<119991, <<98>>>>, <<119992, <<99>>>>,
      <<119993, <<100>>>>, <<119995, <<102>>>>, <<119997, <<104>>>>, <<119998, <<105>>>>,
      <<119999, <<106>>>>, <<120000, <<107>>>>, <<120001, <<108>>>>, <<120002, <<109>>>>,
      <<120003, <<110>>>>, <<120005, <<112>>>>, <<120006, <<113>>>>, <<120007, <<114>>>>,
      <<120008, <<115>>>>, <<120009, <<116>>>>, <<120010, <<117>>>>, <<120011, <<118>>>>,
      <<120012, <<119>>>>, <<120013, <<120>>>>, <<120014, <<121>>>>, <<120015, <<122>>>>, <<120016, <<65>>>>,
      <<120017, <<66>>>>, <<120018, <<67>>>>, <<120019, <<68>>>>, <<120020, <<69>>>>, <<120021, <<70>>>>,
      <<120022, <<71>>>>, <<120023, <<72>>>>, <<120024, <<73>>>>, <<120025, <<74>>>>, <<120026, <<75>>>>,
      <<120027, <<76>>>>, <<120028, <<77>>>>, <<120029, <<78>>>>, <<120030, <<79>>>>, <<120031, <<80>>>>,
      <<120032, <<81>>>>, <<120033, <<82>>>>, <<120034, <<83>>>>, <<120035, <<84>>>>, <<120036, <<85>>>>,
      <<120037, <<86>>>>, <<120038, <<87>>>>, <<120039, <<88>>>>, <<120040, <<89>>>>, <<120041, <<90>>>>,
      <<120042, <<97>>>>, <<120043, <<98>>>>, <<120044, <<99>>>>, <<120045, <<100>>>>, <<120046, <<101>>>>,
      <<120047, <<102>>>>, <<120048, <<103>>>>, <<120049, <<104>>>>, <<120050, <<105>>>>,
      <<120051, <<106>>>>, <<120052, <<107>>>>, <<120053, <<108>>>>, <<120054, <<109>>>>,
      <<120055, <<110>>>>, <<120056, <<111>>>>, <<120057, <<112>>>>, <<120058, <<113>>>>,
      <<120059, <<114>>>>, <<120060, <<115>>>>, <<120061, <<116>>>>, <<120062, <<117>>>>,
      <<120063, <<118>>>>, <<120064, <<119>>>>, <<120065, <<120>>>>, <<120066, <<121>>>>,
      <<120067, <<122>>>>, <<120068, <<65>>>>, <<120069, <<66>>>>, <<120071, <<68>>>>, <<120072, <<69>>>>,
      <<120073, <<70>>>>, <<120074, <<71>>>>, <<120077, <<74>>>>, <<120078, <<75>>>>, <<120079, <<76>>>>,
      <<120080, <<77>>>>, <<120081, <<78>>>>, <<120082, <<79>>>>, <<120083, <<80>>>>, <<120084, <<81>>>>,
      <<120086, <<83>>>>, <<120087, <<84>>>>, <<120088, <<85>>>>, <<120089, <<86>>>>, <<120090, <<87>>>>,
      <<120091, <<88>>>>, <<120092, <<89>>>>, <<120094, <<97>>>>, <<120095, <<98>>>>, <<120096, <<99>>>>,
      <<120097, <<100>>>>, <<120098, <<101>>>>, <<120099, <<102>>>>, <<120100, <<103>>>>,
      <<120101, <<104>>>>, <<120102, <<105>>>>, <<120103, <<106>>>>, <<120104, <<107>>>>,
      <<120105, <<108>>>>, <<120106, <<109>>>>, <<120107, <<110>>>>, <<120108, <<111>>>>,
      <<120109, <<112>>>>, <<120110, <<113>>>>, <<120111, <<114>>>>, <<120112, <<115>>>>,
      <<120113, <<116>>>>, <<120114, <<117>>>>, <<120115, <<118>>>>, <<120116, <<119>>>>,
      <<120117, <<120>>>>, <<120118, <<121>>>>, <<120119, <<122>>>>, <<120120, <<65>>>>, <<120121, <<66>>>>,
      <<120123, <<68>>>>, <<120124, <<69>>>>, <<120125, <<70>>>>, <<120126, <<71>>>>, <<120128, <<73>>>>,
      <<120129, <<74>>>>, <<120130, <<75>>>>, <<120131, <<76>>>>, <<120132, <<77>>>>, <<120134, <<79>>>>,
      <<120138, <<83>>>>, <<120139, <<84>>>>, <<120140, <<85>>>>, <<120141, <<86>>>>, <<120142, <<87>>>>,
      <<120143, <<88>>>>, <<120144, <<89>>>>, <<120146, <<97>>>>, <<120147, <<98>>>>, <<120148, <<99>>>>,
      <<120149, <<100>>>>, <<120150, <<101>>>>, <<120151, <<102>>>>, <<120152, <<103>>>>,
      <<120153, <<104>>>>, <<120154, <<105>>>>, <<120155, <<106>>>>, <<120156, <<107>>>>,
      <<120157, <<108>>>>, <<120158, <<109>>>>, <<120159, <<110>>>>, <<120160, <<111>>>>,
      <<120161, <<112>>>>, <<120162, <<113>>>>, <<120163, <<114>>>>, <<120164, <<115>>>>,
      <<120165, <<116>>>>, <<120166, <<117>>>>, <<120167, <<118>>>>, <<120168, <<119>>>>,
      <<120169, <<120>>>>, <<120170, <<121>>>>, <<120171, <<122>>>>, <<120172, <<65>>>>, <<120173, <<66>>>>,
      <<120174, <<67>>>>, <<120175, <<68>>>>, <<120176, <<69>>>>, <<120177, <<70>>>>, <<120178, <<71>>>>,
      <<120179, <<72>>>>, <<120180, <<73>>>>, <<120181, <<74>>>>, <<120182, <<75>>>>, <<120183, <<76>>>>,
      <<120184, <<77>>>>, <<120185, <<78>>>>, <<120186, <<79>>>>, <<120187, <<80>>>>, <<120188, <<81>>>>,
      <<120189, <<82>>>>, <<120190, <<83>>>>, <<120191, <<84>>>>, <<120192, <<85>>>>, <<120193, <<86>>>>,
      <<120194, <<87>>>>, <<120195, <<88>>>>, <<120196, <<89>>>>, <<120197, <<90>>>>, <<120198, <<97>>>>,
      <<120199, <<98>>>>, <<120200, <<99>>>>, <<120201, <<100>>>>, <<120202, <<101>>>>, <<120203, <<102>>>>,
      <<120204, <<103>>>>, <<120205, <<104>>>>, <<120206, <<105>>>>, <<120207, <<106>>>>,
      <<120208, <<107>>>>, <<120209, <<108>>>>, <<120210, <<109>>>>, <<120211, <<110>>>>,
      <<120212, <<111>>>>, <<120213, <<112>>>>, <<120214, <<113>>>>, <<120215, <<114>>>>,
      <<120216, <<115>>>>, <<120217, <<116>>>>, <<120218, <<117>>>>, <<120219, <<118>>>>,
      <<120220, <<119>>>>, <<120221, <<120>>>>, <<120222, <<121>>>>, <<120223, <<122>>>>, <<120224, <<65>>>>,
      <<120225, <<66>>>>, <<120226, <<67>>>>, <<120227, <<68>>>>, <<120228, <<69>>>>, <<120229, <<70>>>>,
      <<120230, <<71>>>>, <<120231, <<72>>>>, <<120232, <<73>>>>, <<120233, <<74>>>>, <<120234, <<75>>>>,
      <<120235, <<76>>>>, <<120236, <<77>>>>, <<120237, <<78>>>>, <<120238, <<79>>>>, <<120239, <<80>>>>,
      <<120240, <<81>>>>, <<120241, <<82>>>>, <<120242, <<83>>>>, <<120243, <<84>>>>, <<120244, <<85>>>>,
      <<120245, <<86>>>>, <<120246, <<87>>>>, <<120247, <<88>>>>, <<120248, <<89>>>>, <<120249, <<90>>>>,
      <<120250, <<97>>>>, <<120251, <<98>>>>, <<120252, <<99>>>>, <<120253, <<100>>>>, <<120254, <<101>>>>,
      <<120255, <<102>>>>, <<120256, <<103>>>>, <<120257, <<104>>>>, <<120258, <<105>>>>,
      <<120259, <<106>>>>, <<120260, <<107>>>>, <<120261, <<108>>>>, <<120262, <<109>>>>,
      <<120263, <<110>>>>, <<120264, <<111>>>>, <<120265, <<112>>>>, <<120266, <<113>>>>,
      <<120267, <<114>>>>, <<120268, <<115>>>>, <<120269, <<116>>>>, <<120270, <<117>>>>,
      <<120271, <<118>>>>, <<120272, <<119>>>>, <<120273, <<120>>>>, <<120274, <<121>>>>,
      <<120275, <<122>>>>, <<120276, <<65>>>>, <<120277, <<66>>>>, <<120278, <<67>>>>, <<120279, <<68>>>>,
      <<120280, <<69>>>>, <<120281, <<70>>>>, <<120282, <<71>>>>, <<120283, <<72>>>>, <<120284, <<73>>>>,
      <<120285, <<74>>>>, <<120286, <<75>>>>, <<120287, <<76>>>>, <<120288, <<77>>>>, <<120289, <<78>>>>,
      <<120290, <<79>>>>, <<120291, <<80>>>>, <<120292, <<81>>>>, <<120293, <<82>>>>, <<120294, <<83>>>>,
      <<120295, <<84>>>>, <<120296, <<85>>>>, <<120297, <<86>>>>, <<120298, <<87>>>>, <<120299, <<88>>>>,
      <<120300, <<89>>>>, <<120301, <<90>>>>, <<120302, <<97>>>>, <<120303, <<98>>>>, <<120304, <<99>>>>,
      <<120305, <<100>>>>, <<120306, <<101>>>>, <<120307, <<102>>>>, <<120308, <<103>>>>,
      <<120309, <<104>>>>, <<120310, <<105>>>>, <<120311, <<106>>>>, <<120312, <<107>>>>,
      <<120313, <<108>>>>, <<120314, <<109>>>>, <<120315, <<110>>>>, <<120316, <<111>>>>,
      <<120317, <<112>>>>, <<120318, <<113>>>>, <<120319, <<114>>>>, <<120320, <<115>>>>,
      <<120321, <<116>>>>, <<120322, <<117>>>>, <<120323, <<118>>>>, <<120324, <<119>>>>,
      <<120325, <<120>>>>, <<120326, <<121>>>>, <<120327, <<122>>>>, <<120328, <<65>>>>, <<120329, <<66>>>>,
      <<120330, <<67>>>>, <<120331, <<68>>>>, <<120332, <<69>>>>, <<120333, <<70>>>>, <<120334, <<71>>>>,
      <<120335, <<72>>>>, <<120336, <<73>>>>, <<120337, <<74>>>>, <<120338, <<75>>>>, <<120339, <<76>>>>,
      <<120340, <<77>>>>, <<120341, <<78>>>>, <<120342, <<79>>>>, <<120343, <<80>>>>, <<120344, <<81>>>>,
      <<120345, <<82>>>>, <<120346, <<83>>>>, <<120347, <<84>>>>, <<120348, <<85>>>>, <<120349, <<86>>>>,
      <<120350, <<87>>>>, <<120351, <<88>>>>, <<120352, <<89>>>>, <<120353, <<90>>>>, <<120354, <<97>>>>,
      <<120355, <<98>>>>, <<120356, <<99>>>>, <<120357, <<100>>>>, <<120358, <<101>>>>, <<120359, <<102>>>>,
      <<120360, <<103>>>>, <<120361, <<104>>>>, <<120362, <<105>>>>, <<120363, <<106>>>>,
      <<120364, <<107>>>>, <<120365, <<108>>>>, <<120366, <<109>>>>, <<120367, <<110>>>>,
      <<120368, <<111>>>>, <<120369, <<112>>>>, <<120370, <<113>>>>, <<120371, <<114>>>>,
      <<120372, <<115>>>>, <<120373, <<116>>>>, <<120374, <<117>>>>, <<120375, <<118>>>>,
      <<120376, <<119>>>>, <<120377, <<120>>>>, <<120378, <<121>>>>, <<120379, <<122>>>>, <<120380, <<65>>>>,
      <<120381, <<66>>>>, <<120382, <<67>>>>, <<120383, <<68>>>>, <<120384, <<69>>>>, <<120385, <<70>>>>,
      <<120386, <<71>>>>, <<120387, <<72>>>>, <<120388, <<73>>>>, <<120389, <<74>>>>, <<120390, <<75>>>>,
      <<120391, <<76>>>>, <<120392, <<77>>>>, <<120393, <<78>>>>, <<120394, <<79>>>>, <<120395, <<80>>>>,
      <<120396, <<81>>>>, <<120397, <<82>>>>, <<120398, <<83>>>>, <<120399, <<84>>>>, <<120400, <<85>>>>,
      <<120401, <<86>>>>, <<120402, <<87>>>>, <<120403, <<88>>>>, <<120404, <<89>>>>, <<120405, <<90>>>>,
      <<120406, <<97>>>>, <<120407, <<98>>>>, <<120408, <<99>>>>, <<120409, <<100>>>>, <<120410, <<101>>>>,
      <<120411, <<102>>>>, <<120412, <<103>>>>, <<120413, <<104>>>>, <<120414, <<105>>>>,
      <<120415, <<106>>>>, <<120416, <<107>>>>, <<120417, <<108>>>>, <<120418, <<109>>>>,
      <<120419, <<110>>>>, <<120420, <<111>>>>, <<120421, <<112>>>>, <<120422, <<113>>>>,
      <<120423, <<114>>>>, <<120424, <<115>>>>, <<120425, <<116>>>>, <<120426, <<117>>>>,
      <<120427, <<118>>>>, <<120428, <<119>>>>, <<120429, <<120>>>>, <<120430, <<121>>>>,
      <<120431, <<122>>>>, <<120432, <<65>>>>, <<120433, <<66>>>>, <<120434, <<67>>>>, <<120435, <<68>>>>,
      <<120436, <<69>>>>, <<120437, <<70>>>>, <<120438, <<71>>>>, <<120439, <<72>>>>, <<120440, <<73>>>>,
      <<120441, <<74>>>>, <<120442, <<75>>>>, <<120443, <<76>>>>, <<120444, <<77>>>>, <<120445, <<78>>>>,
      <<120446, <<79>>>>, <<120447, <<80>>>>, <<120448, <<81>>>>, <<120449, <<82>>>>, <<120450, <<83>>>>,
      <<120451, <<84>>>>, <<120452, <<85>>>>, <<120453, <<86>>>>, <<120454, <<87>>>>, <<120455, <<88>>>>,
      <<120456, <<89>>>>, <<120457, <<90>>>>, <<120458, <<97>>>>, <<120459, <<98>>>>, <<120460, <<99>>>>,
      <<120461, <<100>>>>, <<120462, <<101>>>>, <<120463, <<102>>>>, <<120464, <<103>>>>,
      <<120465, <<104>>>>, <<120466, <<105>>>>, <<120467, <<106>>>>, <<120468, <<107>>>>,
      <<120469, <<108>>>>, <<120470, <<109>>>>, <<120471, <<110>>>>, <<120472, <<111>>>>,
      <<120473, <<112>>>>, <<120474, <<113>>>>, <<120475, <<114>>>>, <<120476, <<115>>>>,
      <<120477, <<116>>>>, <<120478, <<117>>>>, <<120479, <<118>>>>, <<120480, <<119>>>>,
      <<120481, <<120>>>>, <<120482, <<121>>>>, <<120483, <<122>>>>, <<120484, <<305>>>>,
      <<120485, <<567>>>>, <<120488, <<913>>>>, <<120489, <<914>>>>, <<120490, <<915>>>>,
      <<120491, <<916>>>>, <<120492, <<917>>>>, <<120493, <<918>>>>, <<120494, <<919>>>>,
      <<120495, <<920>>>>, <<120496, <<921>>>>, <<120497, <<922>>>>, <<120498, <<923>>>>,
      <<120499, <<924>>>>, <<120500, <<925>>>>, <<120501, <<926>>>>, <<120502, <<927>>>>,
      <<120503, <<928>>>>, <<120504, <<929>>>>, <<120505, <<920>>>>, <<120506, <<931>>>>,
      <<120507, <<932>>>>, <<120508, <<933>>>>, <<120509, <<934>>>>, <<120510, <<935>>>>,
      <<120511, <<936>>>>, <<120512, <<937>>>>, <<120513, <<8711>>>>, <<120514, <<945>>>>,
      <<120515, <<946>>>>, <<120516, <<947>>>>, <<120517, <<948>>>>, <<120518, <<949>>>>,
      <<120519, <<950>>>>, <<120520, <<951>>>>, <<120521, <<952>>>>, <<120522, <<953>>>>,
      <<120523, <<954>>>>, <<120524, <<955>>>>, <<120525, <<956>>>>, <<120526, <<957>>>>,
      <<120527, <<958>>>>, <<120528, <<959>>>>, <<120529, <<960>>>>, <<120530, <<961>>>>,
      <<120531, <<962>>>>, <<120532, <<963>>>>, <<120533, <<964>>>>, <<120534, <<965>>>>,
      <<120535, <<966>>>>, <<120536, <<967>>>>, <<120537, <<968>>>>, <<120538, <<969>>>>,
      <<120539, <<8706>>>>, <<120540, <<949>>>>, <<120541, <<952>>>>, <<120542, <<954>>>>,
      <<120543, <<966>>>>, <<120544, <<961>>>>, <<120545, <<960>>>>, <<120546, <<913>>>>,
      <<120547, <<914>>>>, <<120548, <<915>>>>, <<120549, <<916>>>>, <<120550, <<917>>>>,
      <<120551, <<918>>>>, <<120552, <<919>>>>, <<120553, <<920>>>>, <<120554, <<921>>>>,
      <<120555, <<922>>>>, <<120556, <<923>>>>, <<120557, <<924>>>>, <<120558, <<925>>>>,
      <<120559, <<926>>>>, <<120560, <<927>>>>, <<120561, <<928>>>>, <<120562, <<929>>>>,
      <<120563, <<920>>>>, <<120564, <<931>>>>, <<120565, <<932>>>>, <<120566, <<933>>>>,
      <<120567, <<934>>>>, <<120568, <<935>>>>, <<120569, <<936>>>>, <<120570, <<937>>>>,
      <<120571, <<8711>>>>, <<120572, <<945>>>>, <<120573, <<946>>>>, <<120574, <<947>>>>,
      <<120575, <<948>>>>, <<120576, <<949>>>>, <<120577, <<950>>>>, <<120578, <<951>>>>,
      <<120579, <<952>>>>, <<120580, <<953>>>>, <<120581, <<954>>>>, <<120582, <<955>>>>,
      <<120583, <<956>>>>, <<120584, <<957>>>>, <<120585, <<958>>>>, <<120586, <<959>>>>,
      <<120587, <<960>>>>, <<120588, <<961>>>>, <<120589, <<962>>>>, <<120590, <<963>>>>,
      <<120591, <<964>>>>, <<120592, <<965>>>>, <<120593, <<966>>>>, <<120594, <<967>>>>,
      <<120595, <<968>>>>, <<120596, <<969>>>>, <<120597, <<8706>>>>, <<120598, <<949>>>>,
      <<120599, <<952>>>>, <<120600, <<954>>>>, <<120601, <<966>>>>, <<120602, <<961>>>>,
      <<120603, <<960>>>>, <<120604, <<913>>>>, <<120605, <<914>>>>, <<120606, <<915>>>>,
      <<120607, <<916>>>>, <<120608, <<917>>>>, <<120609, <<918>>>>, <<120610, <<919>>>>,
      <<120611, <<920>>>>, <<120612, <<921>>>>, <<120613, <<922>>>>, <<120614, <<923>>>>,
      <<120615, <<924>>>>, <<120616, <<925>>>>, <<120617, <<926>>>>, <<120618, <<927>>>>,
      <<120619, <<928>>>>, <<120620, <<929>>>>, <<120621, <<920>>>>, <<120622, <<931>>>>,
      <<120623, <<932>>>>, <<120624, <<933>>>>, <<120625, <<934>>>>, <<120626, <<935>>>>,
      <<120627, <<936>>>>, <<120628, <<937>>>>, <<120629, <<8711>>>>, <<120630, <<945>>>>,
      <<120631, <<946>>>>, <<120632, <<947>>>>, <<120633, <<948>>>>, <<120634, <<949>>>>,
      <<120635, <<950>>>>, <<120636, <<951>>>>, <<120637, <<952>>>>, <<120638, <<953>>>>,
      <<120639, <<954>>>>, <<120640, <<955>>>>, <<120641, <<956>>>>, <<120642, <<957>>>>,
      <<120643, <<958>>>>, <<120644, <<959>>>>, <<120645, <<960>>>>, <<120646, <<961>>>>,
      <<120647, <<962>>>>, <<120648, <<963>>>>, <<120649, <<964>>>>, <<120650, <<965>>>>,
      <<120651, <<966>>>>, <<120652, <<967>>>>, <<120653, <<968>>>>, <<120654, <<969>>>>,
      <<120655, <<8706>>>>, <<120656, <<949>>>>, <<120657, <<952>>>>, <<120658, <<954>>>>,
      <<120659, <<966>>>>, <<120660, <<961>>>>, <<120661, <<960>>>>, <<120662, <<913>>>>,
      <<120663, <<914>>>>, <<120664, <<915>>>>, <<120665, <<916>>>>, <<120666, <<917>>>>,
      <<120667, <<918>>>>, <<120668, <<919>>>>, <<120669, <<920>>>>, <<120670, <<921>>>>,
      <<120671, <<922>>>>, <<120672, <<923>>>>, <<120673, <<924>>>>, <<120674, <<925>>>>,
      <<120675, <<926>>>>, <<120676, <<927>>>>, <<120677, <<928>>>>, <<120678, <<929>>>>,
      <<120679, <<920>>>>, <<120680, <<931>>>>, <<120681, <<932>>>>, <<120682, <<933>>>>,
      <<120683, <<934>>>>, <<120684, <<935>>>>, <<120685, <<936>>>>, <<120686, <<937>>>>,
      <<120687, <<8711>>>>, <<120688, <<945>>>>, <<120689, <<946>>>>, <<120690, <<947>>>>,
      <<120691, <<948>>>>, <<120692, <<949>>>>, <<120693, <<950>>>>, <<120694, <<951>>>>,
      <<120695, <<952>>>>, <<120696, <<953>>>>, <<120697, <<954>>>>, <<120698, <<955>>>>,
      <<120699, <<956>>>>, <<120700, <<957>>>>, <<120701, <<958>>>>, <<120702, <<959>>>>,
      <<120703, <<960>>>>, <<120704, <<961>>>>, <<120705, <<962>>>>, <<120706, <<963>>>>,
      <<120707, <<964>>>>, <<120708, <<965>>>>, <<120709, <<966>>>>, <<120710, <<967>>>>,
      <<120711, <<968>>>>, <<120712, <<969>>>>, <<120713, <<8706>>>>, <<120714, <<949>>>>,
      <<120715, <<952>>>>, <<120716, <<954>>>>, <<120717, <<966>>>>, <<120718, <<961>>>>,
      <<120719, <<960>>>>, <<120720, <<913>>>>, <<120721, <<914>>>>, <<120722, <<915>>>>,
      <<120723, <<916>>>>, <<120724, <<917>>>>, <<120725, <<918>>>>, <<120726, <<919>>>>,
      <<120727, <<920>>>>, <<120728, <<921>>>>, <<120729, <<922>>>>, <<120730, <<923>>>>,
      <<120731, <<924>>>>, <<120732, <<925>>>>, <<120733, <<926>>>>, <<120734, <<927>>>>,
      <<120735, <<928>>>>, <<120736, <<929>>>>, <<120737, <<920>>>>, <<120738, <<931>>>>,
      <<120739, <<932>>>>, <<120740, <<933>>>>, <<120741, <<934>>>>, <<120742, <<935>>>>,
      <<120743, <<936>>>>, <<120744, <<937>>>>, <<120745, <<8711>>>>, <<120746, <<945>>>>,
      <<120747, <<946>>>>, <<120748, <<947>>>>, <<120749, <<948>>>>, <<120750, <<949>>>>,
      <<120751, <<950>>>>, <<120752, <<951>>>>, <<120753, <<952>>>>, <<120754, <<953>>>>,
      <<120755, <<954>>>>, <<120756, <<955>>>>, <<120757, <<956>>>>, <<120758, <<957>>>>,
      <<120759, <<958>>>>, <<120760, <<959>>>>, <<120761, <<960>>>>, <<120762, <<961>>>>,
      <<120763, <<962>>>>, <<120764, <<963>>>>, <<120765, <<964>>>>, <<120766, <<965>>>>,
      <<120767, <<966>>>>, <<120768, <<967>>>>, <<120769, <<968>>>>, <<120770, <<969>>>>,
      <<120771, <<8706>>>>, <<120772, <<949>>>>, <<120773, <<952>>>>, <<120774, <<954>>>>,
      <<120775, <<966>>>>, <<120776, <<961>>>>, <<120777, <<960>>>>, <<120778, <<988>>>>,
      <<120779, <<989>>>>, <<120782, <<48>>>>, <<120783, <<49>>>>, <<120784, <<50>>>>, <<120785, <<51>>>>,
      <<120786, <<52>>>>, <<120787, <<53>>>>, <<120788, <<54>>>>, <<120789, <<55>>>>, <<120790, <<56>>>>,
      <<120791, <<57>>>>, <<120792, <<48>>>>, <<120793, <<49>>>>, <<120794, <<50>>>>, <<120795, <<51>>>>,
      <<120796, <<52>>>>, <<120797, <<53>>>>, <<120798, <<54>>>>, <<120799, <<55>>>>, <<120800, <<56>>>>,
      <<120801, <<57>>>>, <<120802, <<48>>>>, <<120803, <<49>>>>, <<120804, <<50>>>>, <<120805, <<51>>>>,
      <<120806, <<52>>>>, <<120807, <<53>>>>, <<120808, <<54>>>>, <<120809, <<55>>>>, <<120810, <<56>>>>,
      <<120811, <<57>>>>, <<120812, <<48>>>>, <<120813, <<49>>>>, <<120814, <<50>>>>, <<120815, <<51>>>>,
      <<120816, <<52>>>>, <<120817, <<53>>>>, <<120818, <<54>>>>, <<120819, <<55>>>>, <<120820, <<56>>>>,
      <<120821, <<57>>>>, <<120822, <<48>>>>, <<120823, <<49>>>>, <<120824, <<50>>>>, <<120825, <<51>>>>,
      <<120826, <<52>>>>, <<120827, <<53>>>>, <<120828, <<54>>>>, <<120829, <<55>>>>, <<120830, <<56>>>>,
      <<120831, <<57>>>>, <<126464, <<1575>>>>, <<126465, <<1576>>>>, <<126466, <<1580>>>>,
      <<126467, <<1583>>>>, <<126469, <<1608>>>>, <<126470, <<1586>>>>, <<126471, <<1581>>>>,
      <<126472, <<1591>>>>, <<126473, <<1610>>>>, <<126474, <<1603>>>>, <<126475, <<1604>>>>,
      <<126476, <<1605>>>>, <<126477, <<1606>>>>, <<126478, <<1587>>>>, <<126479, <<1593>>>>,
      <<126480, <<1601>>>>, <<126481, <<1589>>>>, <<126482, <<1602>>>>, <<126483, <<1585>>>>,
      <<126484, <<1588>>>>, <<126485, <<1578>>>>, <<126486, <<1579>>>>, <<126487, <<1582>>>>,
      <<126488, <<1584>>>>, <<126489, <<1590>>>>, <<126490, <<1592>>>>, <<126491, <<1594>>>>,
      <<126492, <<1646>>>>, <<126493, <<1722>>>>, <<126494, <<1697>>>>, <<126495, <<1647>>>>,
      <<126497, <<1576>>>>, <<126498, <<1580>>>>, <<126500, <<1607>>>>, <<126503, <<1581>>>>,
      <<126505, <<1610>>>>, <<126506, <<1603>>>>, <<126507, <<1604>>>>, <<126508, <<1605>>>>,
      <<126509, <<1606>>>>, <<126510, <<1587>>>>, <<126511, <<1593>>>>, <<126512, <<1601>>>>,
      <<126513, <<1589>>>>, <<126514, <<1602>>>>, <<126516, <<1588>>>>, <<126517, <<1578>>>>,
      <<126518, <<1579>>>>, <<126519, <<1582>>>>, <<126521, <<1590>>>>, <<126523, <<1594>>>>,
      <<126530, <<1580>>>>, <<126535, <<1581>>>>, <<126537, <<1610>>>>, <<126539, <<1604>>>>,
      <<126541, <<1606>>>>, <<126542, <<1587>>>>, <<126543, <<1593>>>>, <<126545, <<1589>>>>,
      <<126546, <<1602>>>>, <<126548, <<1588>>>>, <<126551, <<1582>>>>, <<126553, <<1590>>>>,
      <<126555, <<1594>>>>, <<126557, <<1722>>>>, <<126559, <<1647>>>>, <<126561, <<1576>>>>,
      <<126562, <<1580>>>>, <<126564, <<1607>>>>, <<126567, <<1581>>>>, <<126568, <<1591>>>>,
      <<126569, <<1610>>>>, <<126570, <<1603>>>>, <<126572, <<1605>>>>, <<126573, <<1606>>>>,
      <<126574, <<1587>>>>, <<126575, <<1593>>>>, <<126576, <<1601>>>>, <<126577, <<1589>>>>,
      <<126578, <<1602>>>>, <<126580, <<1588>>>>, <<126581, <<1578>>>>, <<126582, <<1579>>>>,
      <<126583, <<1582>>>>, <<126585, <<1590>>>>, <<126586, <<1592>>>>, <<126587, <<1594>>>>,
      <<126588, <<1646>>>>, <<126590, <<1697>>>>, <<126592, <<1575>>>>, <<126593, <<1576>>>>,
      <<126594, <<1580>>>>, <<126595, <<1583>>>>, <<126596, <<1607>>>>, <<126597, <<1608>>>>,
      <<126598, <<1586>>>>, <<126599, <<1581>>>>, <<126600, <<1591>>>>, <<126601, <<1610>>>>,
      <<126603, <<1604>>>>, <<126604, <<1605>>>>, <<126605, <<1606>>>>, <<126606, <<1587>>>>,
      <<126607, <<1593>>>>, <<126608, <<1601>>>>, <<126609, <<1589>>>>, <<126610, <<1602>>>>,
      <<126611, <<1585>>>>, <<126612, <<1588>>>>, <<126613, <<1578>>>>, <<126614, <<1579>>>>,
      <<126615, <<1582>>>>, <<126616, <<1584>>>>, <<126617, <<1590>>>>, <<126618, <<1592>>>>,
      <<126619, <<1594>>>>, <<126625, <<1576>>>>, <<126626, <<1580>>>>, <<126627, <<1583>>>>,
      <<126629, <<1608>>>>, <<126630, <<1586>>>>, <<126631, <<1581>>>>, <<126632, <<1591>>>>,
      <<126633, <<1610>>>>, <<126635, <<1604>>>>, <<126636, <<1605>>>>, <<126637, <<1606>>>>,
      <<126638, <<1587>>>>, <<126639, <<1593>>>>, <<126640, <<1601>>>>, <<126641, <<1589>>>>,
      <<126642, <<1602>>>>, <<126643, <<1585>>>>, <<126644, <<1588>>>>, <<126645, <<1578>>>>,
      <<126646, <<1579>>>>, <<126647, <<1582>>>>, <<126648, <<1584>>>>, <<126649, <<1590>>>>,
      <<126650, <<1592>>>>, <<126651, <<1594>>>>, <<127232, <<48, 46>>>>, <<127233, <<48, 44>>>>,
      <<127234, <<49, 44>>>>, <<127235, <<50, 44>>>>, <<127236, <<51, 44>>>>, <<127237, <<52, 44>>>>,
      <<127238, <<53, 44>>>>, <<127239, <<54, 44>>>>, <<127240, <<55, 44>>>>, <<127241, <<56, 44>>>>,
      <<127242, <<57, 44>>>>, <<127248, <<40, 65, 41>>>>, <<127249, <<40, 66, 41>>>>,
      <<127250, <<40, 67, 41>>>>, <<127251, <<40, 68, 41>>>>, <<127252, <<40, 69, 41>>>>,
      <<127253, <<40, 70, 41>>>>, <<127254, <<40, 71, 41>>>>, <<127255, <<40, 72, 41>>>>,
      <<127256, <<40, 73, 41>>>>, <<127257, <<40, 74, 41>>>>, <<127258, <<40, 75, 41>>>>,
      <<127259, <<40, 76, 41>>>>, <<127260, <<40, 77, 41>>>>, <<127261, <<40, 78, 41>>>>,
      <<127262, <<40, 79, 41>>>>, <<127263, <<40, 80, 41>>>>, <<127264, <<40, 81, 41>>>>,
      <<127265, <<40, 82, 41>>>>, <<127266, <<40, 83, 41>>>>, <<127267, <<40, 84, 41>>>>,
      <<127268, <<40, 85, 41>>>>, <<127269, <<40, 86, 41>>>>, <<127270, <<40, 87, 41>>>>,
      <<127271, <<40, 88, 41>>>>, <<127272, <<40, 89, 41>>>>, <<127273, <<40, 90, 41>>>>,
      <<127274, <<12308, 83, 12309>>>>, <<127275, <<67>>>>, <<127276, <<82>>>>, <<127277, <<67, 68>>>>,
      <<127278, <<87, 90>>>>, <<127280, <<65>>>>, <<127281, <<66>>>>, <<127282, <<67>>>>, <<127283, <<68>>>>,
      <<127284, <<69>>>>, <<127285, <<70>>>>, <<127286, <<71>>>>, <<127287, <<72>>>>, <<127288, <<73>>>>,
      <<127289, <<74>>>>, <<127290, <<75>>>>, <<127291, <<76>>>>, <<127292, <<77>>>>, <<127293, <<78>>>>,
      <<127294, <<79>>>>, <<127295, <<80>>>>, <<127296, <<81>>>>, <<127297, <<82>>>>, <<127298, <<83>>>>,
      <<127299, <<84>>>>, <<127300, <<85>>>>, <<127301, <<86>>>>, <<127302, <<87>>>>, <<127303, <<88>>>>,
      <<127304, <<89>>>>, <<127305, <<90>>>>, <<127306, <<72, 86>>>>, <<127307, <<77, 86>>>>,
      <<127308, <<83, 68>>>>, <<127309, <<83, 83>>>>, <<127310, <<80, 80, 86>>>>, <<127311, <<87, 67>>>>,
      <<127338, <<77, 67>>>>, <<127339, <<77, 68>>>>, <<127340, <<77, 82>>>>, <<127376, <<68, 74>>>>,
      <<127488, <<12411, 12363>>>>, <<127489, <<12467, 12467>>>>, <<127490, <<12469>>>>,
      <<127504, <<25163>>>>, <<127505, <<23383>>>>, <<127506, <<21452>>>>, <<127507, <<12486, 12441>>>>,
      <<127508, <<20108>>>>, <<127509, <<22810>>>>, <<127510, <<35299>>>>, <<127511, <<22825>>>>,
      <<127512, <<20132>>>>, <<127513, <<26144>>>>, <<127514, <<28961>>>>, <<127515, <<26009>>>>,
      <<127516, <<21069>>>>, <<127517, <<24460>>>>, <<127518, <<20877>>>>, <<127519, <<26032>>>>,
      <<127520, <<21021>>>>, <<127521, <<32066>>>>, <<127522, <<29983>>>>, <<127523, <<36009>>>>,
      <<127524, <<22768>>>>, <<127525, <<21561>>>>, <<127526, <<28436>>>>, <<127527, <<25237>>>>,
      <<127528, <<25429>>>>, <<127529, <<19968>>>>, <<127530, <<19977>>>>, <<127531, <<36938>>>>,
      <<127532, <<24038>>>>, <<127533, <<20013>>>>, <<127534, <<21491>>>>, <<127535, <<25351>>>>,
      <<127536, <<36208>>>>, <<127537, <<25171>>>>, <<127538, <<31105>>>>, <<127539, <<31354>>>>,
      <<127540, <<21512>>>>, <<127541, <<28288>>>>, <<127542, <<26377>>>>, <<127543, <<26376>>>>,
      <<127544, <<30003>>>>, <<127545, <<21106>>>>, <<127546, <<21942>>>>, <<127547, <<37197>>>>,
      <<127552, <<12308, 26412, 12309>>>>, <<127553, <<12308, 19977, 12309>>>>,
      <<127554, <<12308, 20108, 12309>>>>, <<127555, <<12308, 23433, 12309>>>>,
      <<127556, <<12308, 28857, 12309>>>>, <<127557, <<12308, 25171, 12309>>>>,
      <<127558, <<12308, 30423, 12309>>>>, <<127559, <<12308, 21213, 12309>>>>,
      <<127560, <<12308, 25943, 12309>>>>, <<127568, <<24471>>>>, <<127569, <<21487>>>>, <<130032, <<48>>>>,
      <<130033, <<49>>>>, <<130034, <<50>>>>, <<130035, <<51>>>>, <<130036, <<52>>>>, <<130037, <<53>>>>,
      <<130038, <<54>>>>, <<130039, <<55>>>>, <<130040, <<56>>>>, <<130041, <<57>>>>, <<194560, <<20029>>>>,
      <<194561, <<20024>>>>, <<194562, <<20033>>>>, <<194563, <<131362>>>>, <<194564, <<20320>>>>,
      <<194565, <<20398>>>>, <<194566, <<20411>>>>, <<194567, <<20482>>>>, <<194568, <<20602>>>>,
      <<194569, <<20633>>>>, <<194570, <<20711>>>>, <<194571, <<20687>>>>, <<194572, <<13470>>>>,
      <<194573, <<132666>>>>, <<194574, <<20813>>>>, <<194575, <<20820>>>>, <<194576, <<20836>>>>,
      <<194577, <<20855>>>>, <<194578, <<132380>>>>, <<194579, <<13497>>>>, <<194580, <<20839>>>>,
      <<194581, <<20877>>>>, <<194582, <<132427>>>>, <<194583, <<20887>>>>, <<194584, <<20900>>>>,
      <<194585, <<20172>>>>, <<194586, <<20908>>>>, <<194587, <<20917>>>>, <<194588, <<168415>>>>,
      <<194589, <<20981>>>>, <<194590, <<20995>>>>, <<194591, <<13535>>>>, <<194592, <<21051>>>>,
      <<194593, <<21062>>>>, <<194594, <<21106>>>>, <<194595, <<21111>>>>, <<194596, <<13589>>>>,
      <<194597, <<21191>>>>, <<194598, <<21193>>>>, <<194599, <<21220>>>>, <<194600, <<21242>>>>,
      <<194601, <<21253>>>>, <<194602, <<21254>>>>, <<194603, <<21271>>>>, <<194604, <<21321>>>>,
      <<194605, <<21329>>>>, <<194606, <<21338>>>>, <<194607, <<21363>>>>, <<194608, <<21373>>>>,
      <<194609, <<21375>>>>, <<194610, <<21375>>>>, <<194611, <<21375>>>>, <<194612, <<133676>>>>,
      <<194613, <<28784>>>>, <<194614, <<21450>>>>, <<194615, <<21471>>>>, <<194616, <<133987>>>>,
      <<194617, <<21483>>>>, <<194618, <<21489>>>>, <<194619, <<21510>>>>, <<194620, <<21662>>>>,
      <<194621, <<21560>>>>, <<194622, <<21576>>>>, <<194623, <<21608>>>>, <<194624, <<21666>>>>,
      <<194625, <<21750>>>>, <<194626, <<21776>>>>, <<194627, <<21843>>>>, <<194628, <<21859>>>>,
      <<194629, <<21892>>>>, <<194630, <<21892>>>>, <<194631, <<21913>>>>, <<194632, <<21931>>>>,
      <<194633, <<21939>>>>, <<194634, <<21954>>>>, <<194635, <<22294>>>>, <<194636, <<22022>>>>,
      <<194637, <<22295>>>>, <<194638, <<22097>>>>, <<194639, <<22132>>>>, <<194640, <<20999>>>>,
      <<194641, <<22766>>>>, <<194642, <<22478>>>>, <<194643, <<22516>>>>, <<194644, <<22541>>>>,
      <<194645, <<22411>>>>, <<194646, <<22578>>>>, <<194647, <<22577>>>>, <<194648, <<22700>>>>,
      <<194649, <<136420>>>>, <<194650, <<22770>>>>, <<194651, <<22775>>>>, <<194652, <<22790>>>>,
      <<194653, <<22810>>>>, <<194654, <<22818>>>>, <<194655, <<22882>>>>, <<194656, <<136872>>>>,
      <<194657, <<136938>>>>, <<194658, <<23020>>>>, <<194659, <<23067>>>>, <<194660, <<23079>>>>,
      <<194661, <<23000>>>>, <<194662, <<23142>>>>, <<194663, <<14062>>>>, <<194664, <<14076>>>>,
      <<194665, <<23304>>>>, <<194666, <<23358>>>>, <<194667, <<23358>>>>, <<194668, <<137672>>>>,
      <<194669, <<23491>>>>, <<194670, <<23512>>>>, <<194671, <<23527>>>>, <<194672, <<23539>>>>,
      <<194673, <<138008>>>>, <<194674, <<23551>>>>, <<194675, <<23558>>>>, <<194676, <<24403>>>>,
      <<194677, <<23586>>>>, <<194678, <<14209>>>>, <<194679, <<23648>>>>, <<194680, <<23662>>>>,
      <<194681, <<23744>>>>, <<194682, <<23693>>>>, <<194683, <<138724>>>>, <<194684, <<23875>>>>,
      <<194685, <<138726>>>>, <<194686, <<23918>>>>, <<194687, <<23915>>>>, <<194688, <<23932>>>>,
      <<194689, <<24033>>>>, <<194690, <<24034>>>>, <<194691, <<14383>>>>, <<194692, <<24061>>>>,
      <<194693, <<24104>>>>, <<194694, <<24125>>>>, <<194695, <<24169>>>>, <<194696, <<14434>>>>,
      <<194697, <<139651>>>>, <<194698, <<14460>>>>, <<194699, <<24240>>>>, <<194700, <<24243>>>>,
      <<194701, <<24246>>>>, <<194702, <<24266>>>>, <<194703, <<172946>>>>, <<194704, <<24318>>>>,
      <<194705, <<140081>>>>, <<194706, <<140081>>>>, <<194707, <<33281>>>>, <<194708, <<24354>>>>,
      <<194709, <<24354>>>>, <<194710, <<14535>>>>, <<194711, <<144056>>>>, <<194712, <<156122>>>>,
      <<194713, <<24418>>>>, <<194714, <<24427>>>>, <<194715, <<14563>>>>, <<194716, <<24474>>>>,
      <<194717, <<24525>>>>, <<194718, <<24535>>>>, <<194719, <<24569>>>>, <<194720, <<24705>>>>,
      <<194721, <<14650>>>>, <<194722, <<14620>>>>, <<194723, <<24724>>>>, <<194724, <<141012>>>>,
      <<194725, <<24775>>>>, <<194726, <<24904>>>>, <<194727, <<24908>>>>, <<194728, <<24910>>>>,
      <<194729, <<24908>>>>, <<194730, <<24954>>>>, <<194731, <<24974>>>>, <<194732, <<25010>>>>,
      <<194733, <<24996>>>>, <<194734, <<25007>>>>, <<194735, <<25054>>>>, <<194736, <<25074>>>>,
      <<194737, <<25078>>>>, <<194738, <<25104>>>>, <<194739, <<25115>>>>, <<194740, <<25181>>>>,
      <<194741, <<25265>>>>, <<194742, <<25300>>>>, <<194743, <<25424>>>>, <<194744, <<142092>>>>,
      <<194745, <<25405>>>>, <<194746, <<25340>>>>, <<194747, <<25448>>>>, <<194748, <<25475>>>>,
      <<194749, <<25572>>>>, <<194750, <<142321>>>>, <<194751, <<25634>>>>, <<194752, <<25541>>>>,
      <<194753, <<25513>>>>, <<194754, <<14894>>>>, <<194755, <<25705>>>>, <<194756, <<25726>>>>,
      <<194757, <<25757>>>>, <<194758, <<25719>>>>, <<194759, <<14956>>>>, <<194760, <<25935>>>>,
      <<194761, <<25964>>>>, <<194762, <<143370>>>>, <<194763, <<26083>>>>, <<194764, <<26360>>>>,
      <<194765, <<26185>>>>, <<194766, <<15129>>>>, <<194767, <<26257>>>>, <<194768, <<15112>>>>,
      <<194769, <<15076>>>>, <<194770, <<20882>>>>, <<194771, <<20885>>>>, <<194772, <<26368>>>>,
      <<194773, <<26268>>>>, <<194774, <<32941>>>>, <<194775, <<17369>>>>, <<194776, <<26391>>>>,
      <<194777, <<26395>>>>, <<194778, <<26401>>>>, <<194779, <<26462>>>>, <<194780, <<26451>>>>,
      <<194781, <<144323>>>>, <<194782, <<15177>>>>, <<194783, <<26618>>>>, <<194784, <<26501>>>>,
      <<194785, <<26706>>>>, <<194786, <<26757>>>>, <<194787, <<144493>>>>, <<194788, <<26766>>>>,
      <<194789, <<26655>>>>, <<194790, <<26900>>>>, <<194791, <<15261>>>>, <<194792, <<26946>>>>,
      <<194793, <<27043>>>>, <<194794, <<27114>>>>, <<194795, <<27304>>>>, <<194796, <<145059>>>>,
      <<194797, <<27355>>>>, <<194798, <<15384>>>>, <<194799, <<27425>>>>, <<194800, <<145575>>>>,
      <<194801, <<27476>>>>, <<194802, <<15438>>>>, <<194803, <<27506>>>>, <<194804, <<27551>>>>,
      <<194805, <<27578>>>>, <<194806, <<27579>>>>, <<194807, <<146061>>>>, <<194808, <<138507>>>>,
      <<194809, <<146170>>>>, <<194810, <<27726>>>>, <<194811, <<146620>>>>, <<194812, <<27839>>>>,
      <<194813, <<27853>>>>, <<194814, <<27751>>>>, <<194815, <<27926>>>>, <<194816, <<27966>>>>,
      <<194817, <<28023>>>>, <<194818, <<27969>>>>, <<194819, <<28009>>>>, <<194820, <<28024>>>>,
      <<194821, <<28037>>>>, <<194822, <<146718>>>>, <<194823, <<27956>>>>, <<194824, <<28207>>>>,
      <<194825, <<28270>>>>, <<194826, <<15667>>>>, <<194827, <<28363>>>>, <<194828, <<28359>>>>,
      <<194829, <<147153>>>>, <<194830, <<28153>>>>, <<194831, <<28526>>>>, <<194832, <<147294>>>>,
      <<194833, <<147342>>>>, <<194834, <<28614>>>>, <<194835, <<28729>>>>, <<194836, <<28702>>>>,
      <<194837, <<28699>>>>, <<194838, <<15766>>>>, <<194839, <<28746>>>>, <<194840, <<28797>>>>,
      <<194841, <<28791>>>>, <<194842, <<28845>>>>, <<194843, <<132389>>>>, <<194844, <<28997>>>>,
      <<194845, <<148067>>>>, <<194846, <<29084>>>>, <<194847, <<148395>>>>, <<194848, <<29224>>>>,
      <<194849, <<29237>>>>, <<194850, <<29264>>>>, <<194851, <<149000>>>>, <<194852, <<29312>>>>,
      <<194853, <<29333>>>>, <<194854, <<149301>>>>, <<194855, <<149524>>>>, <<194856, <<29562>>>>,
      <<194857, <<29579>>>>, <<194858, <<16044>>>>, <<194859, <<29605>>>>, <<194860, <<16056>>>>,
      <<194861, <<16056>>>>, <<194862, <<29767>>>>, <<194863, <<29788>>>>, <<194864, <<29809>>>>,
      <<194865, <<29829>>>>, <<194866, <<29898>>>>, <<194867, <<16155>>>>, <<194868, <<29988>>>>,
      <<194869, <<150582>>>>, <<194870, <<30014>>>>, <<194871, <<150674>>>>, <<194872, <<30064>>>>,
      <<194873, <<139679>>>>, <<194874, <<30224>>>>, <<194875, <<151457>>>>, <<194876, <<151480>>>>,
      <<194877, <<151620>>>>, <<194878, <<16380>>>>, <<194879, <<16392>>>>, <<194880, <<30452>>>>,
      <<194881, <<151795>>>>, <<194882, <<151794>>>>, <<194883, <<151833>>>>, <<194884, <<151859>>>>,
      <<194885, <<30494>>>>, <<194886, <<30495>>>>, <<194887, <<30495>>>>, <<194888, <<30538>>>>,
      <<194889, <<16441>>>>, <<194890, <<30603>>>>, <<194891, <<16454>>>>, <<194892, <<16534>>>>,
      <<194893, <<152605>>>>, <<194894, <<30798>>>>, <<194895, <<30860>>>>, <<194896, <<30924>>>>,
      <<194897, <<16611>>>>, <<194898, <<153126>>>>, <<194899, <<31062>>>>, <<194900, <<153242>>>>,
      <<194901, <<153285>>>>, <<194902, <<31119>>>>, <<194903, <<31211>>>>, <<194904, <<16687>>>>,
      <<194905, <<31296>>>>, <<194906, <<31306>>>>, <<194907, <<31311>>>>, <<194908, <<153980>>>>,
      <<194909, <<154279>>>>, <<194910, <<154279>>>>, <<194911, <<31470>>>>, <<194912, <<16898>>>>,
      <<194913, <<154539>>>>, <<194914, <<31686>>>>, <<194915, <<31689>>>>, <<194916, <<16935>>>>,
      <<194917, <<154752>>>>, <<194918, <<31954>>>>, <<194919, <<17056>>>>, <<194920, <<31976>>>>,
      <<194921, <<31971>>>>, <<194922, <<32000>>>>, <<194923, <<155526>>>>, <<194924, <<32099>>>>,
      <<194925, <<17153>>>>, <<194926, <<32199>>>>, <<194927, <<32258>>>>, <<194928, <<32325>>>>,
      <<194929, <<17204>>>>, <<194930, <<156200>>>>, <<194931, <<156231>>>>, <<194932, <<17241>>>>,
      <<194933, <<156377>>>>, <<194934, <<32634>>>>, <<194935, <<156478>>>>, <<194936, <<32661>>>>,
      <<194937, <<32762>>>>, <<194938, <<32773>>>>, <<194939, <<156890>>>>, <<194940, <<156963>>>>,
      <<194941, <<32864>>>>, <<194942, <<157096>>>>, <<194943, <<32880>>>>, <<194944, <<144223>>>>,
      <<194945, <<17365>>>>, <<194946, <<32946>>>>, <<194947, <<33027>>>>, <<194948, <<17419>>>>,
      <<194949, <<33086>>>>, <<194950, <<23221>>>>, <<194951, <<157607>>>>, <<194952, <<157621>>>>,
      <<194953, <<144275>>>>, <<194954, <<144284>>>>, <<194955, <<33281>>>>, <<194956, <<33284>>>>,
      <<194957, <<36766>>>>, <<194958, <<17515>>>>, <<194959, <<33425>>>>, <<194960, <<33419>>>>,
      <<194961, <<33437>>>>, <<194962, <<21171>>>>, <<194963, <<33457>>>>, <<194964, <<33459>>>>,
      <<194965, <<33469>>>>, <<194966, <<33510>>>>, <<194967, <<158524>>>>, <<194968, <<33509>>>>,
      <<194969, <<33565>>>>, <<194970, <<33635>>>>, <<194971, <<33709>>>>, <<194972, <<33571>>>>,
      <<194973, <<33725>>>>, <<194974, <<33767>>>>, <<194975, <<33879>>>>, <<194976, <<33619>>>>,
      <<194977, <<33738>>>>, <<194978, <<33740>>>>, <<194979, <<33756>>>>, <<194980, <<158774>>>>,
      <<194981, <<159083>>>>, <<194982, <<158933>>>>, <<194983, <<17707>>>>, <<194984, <<34033>>>>,
      <<194985, <<34035>>>>, <<194986, <<34070>>>>, <<194987, <<160714>>>>, <<194988, <<34148>>>>,
      <<194989, <<159532>>>>, <<194990, <<17757>>>>, <<194991, <<17761>>>>, <<194992, <<159665>>>>,
      <<194993, <<159954>>>>, <<194994, <<17771>>>>, <<194995, <<34384>>>>, <<194996, <<34396>>>>,
      <<194997, <<34407>>>>, <<194998, <<34409>>>>, <<194999, <<34473>>>>, <<195000, <<34440>>>>,
      <<195001, <<34574>>>>, <<195002, <<34530>>>>, <<195003, <<34681>>>>, <<195004, <<34600>>>>,
      <<195005, <<34667>>>>, <<195006, <<34694>>>>, <<195007, <<17879>>>>, <<195008, <<34785>>>>,
      <<195009, <<34817>>>>, <<195010, <<17913>>>>, <<195011, <<34912>>>>, <<195012, <<34915>>>>,
      <<195013, <<161383>>>>, <<195014, <<35031>>>>, <<195015, <<35038>>>>, <<195016, <<17973>>>>,
      <<195017, <<35066>>>>, <<195018, <<13499>>>>, <<195019, <<161966>>>>, <<195020, <<162150>>>>,
      <<195021, <<18110>>>>, <<195022, <<18119>>>>, <<195023, <<35488>>>>, <<195024, <<35565>>>>,
      <<195025, <<35722>>>>, <<195026, <<35925>>>>, <<195027, <<162984>>>>, <<195028, <<36011>>>>,
      <<195029, <<36033>>>>, <<195030, <<36123>>>>, <<195031, <<36215>>>>, <<195032, <<163631>>>>,
      <<195033, <<133124>>>>, <<195034, <<36299>>>>, <<195035, <<36284>>>>, <<195036, <<36336>>>>,
      <<195037, <<133342>>>>, <<195038, <<36564>>>>, <<195039, <<36664>>>>, <<195040, <<165330>>>>,
      <<195041, <<165357>>>>, <<195042, <<37012>>>>, <<195043, <<37105>>>>, <<195044, <<37137>>>>,
      <<195045, <<165678>>>>, <<195046, <<37147>>>>, <<195047, <<37432>>>>, <<195048, <<37591>>>>,
      <<195049, <<37592>>>>, <<195050, <<37500>>>>, <<195051, <<37881>>>>, <<195052, <<37909>>>>,
      <<195053, <<166906>>>>, <<195054, <<38283>>>>, <<195055, <<18837>>>>, <<195056, <<38327>>>>,
      <<195057, <<167287>>>>, <<195058, <<18918>>>>, <<195059, <<38595>>>>, <<195060, <<23986>>>>,
      <<195061, <<38691>>>>, <<195062, <<168261>>>>, <<195063, <<168474>>>>, <<195064, <<19054>>>>,
      <<195065, <<19062>>>>, <<195066, <<38880>>>>, <<195067, <<168970>>>>, <<195068, <<19122>>>>,
      <<195069, <<169110>>>>, <<195070, <<38923>>>>, <<195071, <<38923>>>>, <<195072, <<38953>>>>,
      <<195073, <<169398>>>>, <<195074, <<39138>>>>, <<195075, <<19251>>>>, <<195076, <<39209>>>>,
      <<195077, <<39335>>>>, <<195078, <<39362>>>>, <<195079, <<39422>>>>, <<195080, <<19406>>>>,
      <<195081, <<170800>>>>, <<195082, <<39698>>>>, <<195083, <<40000>>>>, <<195084, <<40189>>>>,
      <<195085, <<19662>>>>, <<195086, <<19693>>>>, <<195087, <<40295>>>>, <<195088, <<172238>>>>,
      <<195089, <<19704>>>>, <<195090, <<172293>>>>, <<195091, <<172558>>>>, <<195092, <<172689>>>>,
      <<195093, <<40635>>>>, <<195094, <<19798>>>>, <<195095, <<40697>>>>, <<195096, <<40702>>>>,
      <<195097, <<40709>>>>, <<195098, <<40719>>>>, <<195099, <<40726>>>>, <<195100, <<40763>>>>,
      <<195101, <<173568>>>>
    >>

\* The canonical combining classes that are not 0: <<first, last, class>>
\* for each range of code points, ascending.
CombiningClasses ==
    <<
      <<768, 788, 230>>, <<789, 789, 232>>, <<790, 793, 220>>, <<794, 794, 232>>, <<795, 795, 216>>,
      <<796, 800, 220>>, <<801, 802, 202>>, <<803, 806, 220>>, <<807, 808, 202>>, <<809, 819, 220>>,
      <<820, 824, 1>>, <<825, 828, 220>>, <<829, 836, 230>>, <<837, 837, 240>>, <<838, 838, 230>>,
      <<839, 841, 220>>, <<842, 844, 230>>, <<845, 846, 220>>, <<848, 850, 230>>, <<851, 854, 220>>,
      <<855, 855, 230>>, <<856, 856, 232>>, <<857, 858, 220>>, <<859, 859, 230>>, <<860, 860, 233>>,
      <<861, 862, 234>>, <<863, 863, 233>>, <<864, 865, 234>>, <<866, 866, 233>>, <<867, 879, 230>>,
      <<1155, 1159, 230>>, <<1425, 1425, 220>>, <<1426, 1429, 230>>, <<1430, 1430, 220>>,
      <<1431, 1433, 230>>, <<1434, 1434, 222>>, <<1435, 1435, 220>>, <<1436, 1441, 230>>,
      <<1442, 1447, 220>>, <<1448, 1449, 230>>, <<1450, 1450, 220>>, <<1451, 1452, 230>>,
      <<1453, 1453, 222>>, <<1454, 1454, 228>>, <<1455, 1455, 230>>, <<1456, 1456, 10>>, <<1457, 1457, 11>>,
      <<1458, 1458, 12>>, <<1459, 1459, 13>>, <<1460, 1460, 14>>, <<1461, 1461, 15>>, <<1462, 1462, 16>>,
      <<1463, 1463, 17>>, <<1464, 1464, 18>>, <<1465, 1466, 19>>, <<1467, 1467, 20>>, <<1468, 1468, 21>>,
      <<1469, 1469, 22>>, <<1471, 1471, 23>>, <<1473, 1473, 24>>, <<1474, 1474, 25>>, <<1476, 1476, 230>>,
      <<1477, 1477, 220>>, <<1479, 1479, 18>>, <<1552, 1559, 230>>, <<1560, 1560, 30>>, <<1561, 1561, 31>>,
      <<1562, 1562, 32>>, <<1611, 1611, 27>>, <<1612, 1612, 28>>, <<1613, 1613, 29>>, <<1614, 1614, 30>>,
      <<1615, 1615, 31>>, <<1616, 1616, 32>>, <<1617, 1617, 33>>, <<1618, 1618, 34>>, <<1619, 1620, 230>>,
      <<1621, 1622, 220>>, <<1623, 1627, 230>>, <<1628, 1628, 220>>, <<1629, 1630, 230>>,
      <<1631, 1631, 220>>, <<1648, 1648, 35>>, <<1750, 1756, 230>>, <<1759, 1762, 230>>, <<1763, 1763, 220>>,
      <<1764, 1764, 230>>, <<1767, 1768, 230>>, <<1770, 1770, 220>>, <<1771, 1772, 230>>,
      <<1773, 1773, 220>>, <<1809, 1809, 36>>, <<1840, 1840, 230>>, <<1841, 1841, 220>>, <<1842, 1843, 230>>,
      <<1844, 1844, 220>>, <<1845, 1846, 230>>, <<1847, 1849, 220>>, <<1850, 1850, 230>>,
      <<1851, 1852, 220>>, <<1853, 1853, 230>>, <<1854, 1854, 220>>, <<1855, 1857, 230>>,
      <<1858, 1858, 220>>, <<1859, 1859, 230>>, <<1860, 1860, 220>>, <<1861, 1861, 230>>,
      <<1862, 1862, 220>>, <<1863, 1863, 230>>, <<1864, 1864, 220>>, <<1865, 1866, 230>>,
      <<2027, 2033, 230>>, <<2034, 2034, 220>>, <<2035, 2035, 230>>, <<2045, 2045, 220>>,
      <<2070, 2073, 230>>, <<2075, 2083, 230>>, <<2085, 2087, 230>>, <<2089, 2093, 230>>,
      <<2137, 2139, 220>>, <<2200, 2200, 230>>, <<2201, 2203, 220>>, <<2204, 2207, 230>>,
      <<2250, 2254, 230>>, <<2255, 2259, 220>>, <<2260, 2273, 230>>, <<2275, 2275, 220>>,
      <<2276, 2277, 230>>, <<2278, 2278, 220>>, <<2279, 2280, 230>>, <<2281, 2281, 220>>,
      <<2282, 2284, 230>>, <<2285, 2287, 220>>, <<2288, 2288, 27>>, <<2289, 2289, 28>>, <<2290, 2290, 29>>,
      <<2291, 2293, 230>>, <<2294, 2294, 220>>, <<2295, 2296, 230>>, <<2297, 2298, 220>>,
      <<2299, 2303, 230>>, <<2364, 2364, 7>>, <<2381, 2381, 9>>, <<2385, 2385, 230>>, <<2386, 2386, 220>>,
      <<2387, 2388, 230>>, <<2492, 2492, 7>>, <<2509, 2509, 9>>, <<2558, 2558, 230>>, <<2620, 2620, 7>>,
      <<2637, 2637, 9>>, <<2748, 2748, 7>>, <<2765, 2765, 9>>, <<2876, 2876, 7>>, <<2893, 2893, 9>>,
      <<3021, 3021, 9>>, <<3132, 3132, 7>>, <<3149, 3149, 9>>, <<3157, 3157, 84>>, <<3158, 3158, 91>>,
      <<3260, 3260, 7>>, <<3277, 3277, 9>>, <<3387, 3388, 9>>, <<3405, 3405, 9>>, <<3530, 3530, 9>>,
      <<3640, 3641, 103>>, <<3642, 3642, 9>>, <<3656, 3659, 107>>, <<3768, 3769, 118>>, <<3770, 3770, 9>>,
      <<3784, 3787, 122>>, <<3864, 3865, 220>>, <<3893, 3893, 220>>, <<3895, 3895, 220>>,
      <<3897, 3897, 216>>, <<3953, 3953, 129>>, <<3954, 3954, 130>>, <<3956, 3956, 132>>,
      <<3962, 3965, 130>>, <<3968, 3968, 130>>, <<3970, 3971, 230>>, <<3972, 3972, 9>>, <<3974, 3975, 230>>,
      <<4038, 4038, 220>>, <<4151, 4151, 7>>, <<4153, 4154, 9>>, <<4237, 4237, 220>>, <<4957, 4959, 230>>,
      <<5908, 5909, 9>>, <<5940, 5940, 9>>, <<6098, 6098, 9>>, <<6109, 6109, 230>>, <<6313, 6313, 228>>,
      <<6457, 6457, 222>>, <<6458, 6458, 230>>, <<6459, 6459, 220>>, <<6679, 6679, 230>>,
      <<6680, 6680, 220>>, <<6752, 6752, 9>>, <<6773, 6780, 230>>, <<6783, 6783, 220>>, <<6832, 6836, 230>>,
      <<6837, 6842, 220>>, <<6843, 6844, 230>>, <<6845, 6845, 220>>, <<6847, 6848, 220>>,
      <<6849, 6850, 230>>, <<6851, 6852, 220>>, <<6853, 6857, 230>>, <<6858, 6858, 220>>,
      <<6859, 6862, 230>>, <<6964, 6964, 7>>, <<6980, 6980, 9>>, <<7019, 7019, 230>>, <<7020, 7020, 220>>,
      <<7021, 7027, 230>>, <<7082, 7083, 9>>, <<7142, 7142, 7>>, <<7154, 7155, 9>>, <<7223, 7223, 7>>,
      <<7376, 7378, 230>>, <<7380, 7380, 1>>, <<7381, 7385, 220>>, <<7386, 7387, 230>>, <<7388, 7391, 220>>,
      <<7392, 7392, 230>>, <<7394, 7400, 1>>, <<7405, 7405, 220>>, <<7412, 7412, 230>>, <<7416, 7417, 230>>,
      <<7616, 7617, 230>>, <<7618, 7618, 220>>, <<7619, 7625, 230>>, <<7626, 7626, 220>>,
      <<7627, 7628, 230>>, <<7629, 7629, 234>>, <<7630, 7630, 214>>, <<7631, 7631, 220>>,
      <<7632, 7632, 202>>, <<7633, 7669, 230>>, <<7670, 7670, 232>>, <<7671, 7672, 228>>,
      <<7673, 7673, 220>>, <<7674, 7674, 218>>, <<7675, 7675, 230>>, <<7676, 7676, 233>>,
      <<7677, 7677, 220>>, <<7678, 7678, 230>>, <<7679, 7679, 220>>, <<8400, 8401, 230>>, <<8402, 8403, 1>>,
      <<8404, 8407, 230>>, <<8408, 8410, 1>>, <<8411, 8412, 230>>, <<8417, 8417, 230>>, <<8421, 8422, 1>>,
      <<8423, 8423, 230>>, <<8424, 8424, 220>>, <<8425, 8425, 230>>, <<8426, 8427, 1>>, <<8428, 8431, 220>>,
      <<8432, 8432, 230>>, <<11503, 11505, 230>>, <<11647, 11647, 9>>, <<11744, 11775, 230>>,
      <<12330, 12330, 218>>, <<12331, 12331, 228>>, <<12332, 12332, 232>>, <<12333, 12333, 222>>,
      <<12334, 12335, 224>>, <<12441, 12442, 8>>, <<42607, 42607, 230>>, <<42612, 42621, 230>>,
      <<42654, 42655, 230>>, <<42736, 42737, 230>>, <<43014, 43014, 9>>, <<43052, 43052, 9>>,
      <<43204, 43204, 9>>, <<43232, 43249, 230>>, <<43307, 43309, 220>>, <<43347, 43347, 9>>,
      <<43443, 43443, 7>>, <<43456, 43456, 9>>, <<43696, 43696, 230>>, <<43698, 43699, 230>>,
      <<43700, 43700, 220>>, <<43703, 43704, 230>>, <<43710, 43711, 230>>, <<43713, 43713, 230>>,
      <<43766, 43766, 9>>, <<44013, 44013, 9>>, <<64286, 64286, 26>>, <<65056, 65062, 230>>,
      <<65063, 65069, 220>>, <<65070, 65071, 230>>, <<66045, 66045, 220>>, <<66272, 66272, 220>>,
      <<66422, 66426, 230>>, <<68109, 68109, 220>>, <<68111, 68111, 230>>, <<68152, 68152, 230>>,
      <<68153, 68153, 1>>, <<68154, 68154, 220>>, <<68159, 68159, 9>>, <<68325, 68325, 230>>,
      <<68326, 68326, 220>>, <<68900, 68903, 230>>, <<69291, 69292, 230>>, <<69446, 69447, 220>>,
      <<69448, 69450, 230>>, <<69451, 69451, 220>>, <<69452, 69452, 230>>, <<69453, 69456, 220>>,
      <<69506, 69506, 230>>, <<69507, 69507, 220>>, <<69508, 69508, 230>>, <<69509, 69509, 220>>,
      <<69702, 69702, 9>>, <<69744, 69744, 9>>, <<69759, 69759, 9>>, <<69817, 69817, 9>>,
      <<69818, 69818, 7>>, <<69888, 69890, 230>>, <<69939, 69940, 9>>, <<70003, 70003, 7>>,
      <<70080, 70080, 9>>, <<70090, 70090, 7>>, <<70197, 70197, 9>>, <<70198, 70198, 7>>,
      <<70377, 70377, 7>>, <<70378, 70378, 9>>, <<70459, 70460, 7>>, <<70477, 70477, 9>>,
      <<70502, 70508, 230>>, <<70512, 70516, 230>>, <<70722, 70722, 9>>, <<70726, 70726, 7>>,
      <<70750, 70750, 230>>, <<70850, 70850, 9>>, <<70851, 70851, 7>>, <<71103, 71103, 9>>,
      <<71104, 71104, 7>>, <<71231, 71231, 9>>, <<71350, 71350, 9>>, <<71351, 71351, 7>>,
      <<71467, 71467, 9>>, <<71737, 71737, 9>>, <<71738, 71738, 7>>, <<71997, 71998, 9>>,
      <<72003, 72003, 7>>, <<72160, 72160, 9>>, <<72244, 72244, 9>>, <<72263, 72263, 9>>,
      <<72345, 72345, 9>>, <<72767, 72767, 9>>, <<73026, 73026, 7>>, <<73028, 73029, 9>>,
      <<73111, 73111, 9>>, <<92912, 92916, 1>>, <<92976, 92982, 230>>, <<94192, 94193, 6>>,
      <<113822, 113822, 1>>, <<119141, 119142, 216>>, <<119143, 119145, 1>>, <<119149, 119149, 226>>,
      <<119150, 119154, 216>>, <<119163, 119170, 220>>, <<119173, 119177, 230>>, <<119178, 119179, 220>>,
      <<119210, 119213, 230>>, <<119362, 119364, 230>>, <<122880, 122886, 230>>, <<122888, 122904, 230>>,
      <<122907, 122913, 230>>, <<122915, 122916, 230>>, <<122918, 122922, 230>>, <<123184, 123190, 230>>,
      <<123566, 123566, 230>>, <<123628, 123631, 230>>, <<125136, 125142, 220>>, <<125252, 125257, 230>>,
      <<125258, 125258, 7>>
    >>

\* The canonical compositions: <<first, second, composite>> for each pair
\* of characters that compose, ascending.  The Hangul syllables, composed by
\* arithmetic, are not listed.
Compositions ==
    <<
      <<60, 824, 8814>>, <<61, 824, 8800>>, <<62, 824, 8815>>, <<65, 768, 192>>, <<65, 769, 193>>,
      <<65, 770, 194>>, <<65, 771, 195>>, <<65, 772, 256>>, <<65, 774, 258>>, <<65, 775, 550>>,
      <<65, 776, 196>>, <<65, 777, 7842>>, <<65, 778, 197>>, <<65, 780, 461>>, <<65, 783, 512>>,
      <<65, 785, 514>>, <<65, 803, 7840>>, <<65, 805, 7680>>, <<65, 808, 260>>, <<66, 775, 7682>>,
      <<66, 803, 7684>>, <<66, 817, 7686>>, <<67, 769, 262>>, <<67, 770, 264>>, <<67, 775, 266>>,
      <<67, 780, 268>>, <<67, 807, 199>>, <<68, 775, 7690>>, <<68, 780, 270>>, <<68, 803, 7692>>,
      <<68, 807, 7696>>, <<68, 813, 7698>>, <<68, 817, 7694>>, <<69, 768, 200>>, <<69, 769, 201>>,
      <<69, 770, 202>>, <<69, 771, 7868>>, <<69, 772, 274>>, <<69, 774, 276>>, <<69, 775, 278>>,
      <<69, 776, 203>>, <<69, 777, 7866>>, <<69, 780, 282>>, <<69, 783, 516>>, <<69, 785, 518>>,
      <<69, 803, 7864>>, <<69, 807, 552>>, <<69, 808, 280>>, <<69, 813, 7704>>, <<69, 816, 7706>>,
      <<70, 775, 7710>>, <<71, 769, 500>>, <<71, 770, 284>>, <<71, 772, 7712>>, <<71, 774, 286>>,
      <<71, 775, 288>>, <<71, 780, 486>>, <<71, 807, 290>>, <<72, 770, 292>>, <<72, 775, 7714>>,
      <<72, 776, 7718>>, <<72, 780, 542>>, <<72, 803, 7716>>, <<72, 807, 7720>>, <<72, 814, 7722>>,
      <<73, 768, 204>>, <<73, 769, 205>>, <<73, 770, 206>>, <<73, 771, 296>>, <<73, 772, 298>>,
      <<73, 774, 300>>, <<73, 775, 304>>, <<73, 776, 207>>, <<73, 777, 7880>>, <<73, 780, 463>>,
      <<73, 783, 520>>, <<73, 785, 522>>, <<73, 803, 7882>>, <<73, 808, 302>>, <<73, 816, 7724>>,
      <<74, 770, 308>>, <<75, 769, 7728>>, <<75, 780, 488>>, <<75, 803, 7730>>, <<75, 807, 310>>,
      <<75, 817, 7732>>, <<76, 769, 313>>, <<76, 780, 317>>, <<76, 803, 7734>>, <<76, 807, 315>>,
      <<76, 813, 7740>>, <<76, 817, 7738>>, <<77, 769, 7742>>, <<77, 775, 7744>>, <<77, 803, 7746>>,
      <<78, 768, 504>>, <<78, 769, 323>>, <<78, 771, 209>>, <<78, 775, 7748>>, <<78, 780, 327>>,
      <<78, 803, 7750>>, <<78, 807, 325>>, <<78, 813, 7754>>, <<78, 817, 7752>>, <<79, 768, 210>>,
      <<79, 769, 211>>, <<79, 770, 212>>, <<79, 771, 213>>, <<79, 772, 332>>, <<79, 774, 334>>,
      <<79, 775, 558>>, <<79, 776, 214>>, <<79, 777, 7886>>, <<79, 779, 336>>, <<79, 780, 465>>,
      <<79, 783, 524>>, <<79, 785, 526>>, <<79, 795, 416>>, <<79, 803, 7884>>, <<79, 808, 490>>,
      <<80, 769, 7764>>, <<80, 775, 7766>>, <<82, 769, 340>>, <<82, 775, 7768>>, <<82, 780, 344>>,
      <<82, 783, 528>>, <<82, 785, 530>>, <<82, 803, 7770>>, <<82, 807, 342>>, <<82, 817, 7774>>,
      <<83, 769, 346>>, <<83, 770, 348>>, <<83, 775, 7776>>, <<83, 780, 352>>, <<83, 803, 7778>>,
      <<83, 806, 536>>, <<83, 807, 350>>, <<84, 775, 7786>>, <<84, 780, 356>>, <<84, 803, 7788>>,
      <<84, 806, 538>>, <<84, 807, 354>>, <<84, 813, 7792>>, <<84, 817, 7790>>, <<85, 768, 217>>,
      <<85, 769, 218>>, <<85, 770, 219>>, <<85, 771, 360>>, <<85, 772, 362>>, <<85, 774, 364>>,
      <<85, 776, 220>>, <<85, 777, 7910>>, <<85, 778, 366>>, <<85, 779, 368>>, <<85, 780, 467>>,
      <<85, 783, 532>>, <<85, 785, 534>>, <<85, 795, 431>>, <<85, 803, 7908>>, <<85, 804, 7794>>,
      <<85, 808, 370>>, <<85, 813, 7798>>, <<85, 816, 7796>>, <<86, 771, 7804>>, <<86, 803, 7806>>,
      <<87, 768, 7808>>, <<87, 769, 7810>>, <<87, 770, 372>>, <<87, 775, 7814>>, <<87, 776, 7812>>,
      <<87, 803, 7816>>, <<88, 775, 7818>>, <<88, 776, 7820>>, <<89, 768, 7922>>, <<89, 769, 221>>,
      <<89, 770, 374>>, <<89, 771, 7928>>, <<89, 772, 562>>, <<89, 775, 7822>>, <<89, 776, 376>>,
      <<89, 777, 7926>>, <<89, 803, 7924>>, <<90, 769, 377>>, <<90, 770, 7824>>, <<90, 775, 379>>,
      <<90, 780, 381>>, <<90, 803, 7826>>, <<90, 817, 7828>>, <<97, 768, 224>>, <<97, 769, 225>>,
      <<97, 770, 226>>, <<97, 771, 227>>, <<97, 772, 257>>, <<97, 774, 259>>, <<97, 775, 551>>,
      <<97, 776, 228>>, <<97, 777, 7843>>, <<97, 778, 229>>, <<97, 780, 462>>, <<97, 783, 513>>,
      <<97, 785, 515>>, <<97, 803, 7841>>, <<97, 805, 7681>>, <<97, 808, 261>>, <<98, 775, 7683>>,
      <<98, 803, 7685>>, <<98, 817, 7687>>, <<99, 769, 263>>, <<99, 770, 265>>, <<99, 775, 267>>,
      <<99, 780, 269>>, <<99, 807, 231>>, <<100, 775, 7691>>, <<100, 780, 271>>, <<100, 803, 7693>>,
      <<100, 807, 7697>>, <<100, 813, 7699>>, <<100, 817, 7695>>, <<101, 768, 232>>, <<101, 769, 233>>,
      <<101, 770, 234>>, <<101, 771, 7869>>, <<101, 772, 275>>, <<101, 774, 277>>, <<101, 775, 279>>,
      <<101, 776, 235>>, <<101, 777, 7867>>, <<101, 780, 283>>, <<101, 783, 517>>, <<101, 785, 519>>,
      <<101, 803, 7865>>, <<101, 807, 553>>, <<101, 808, 281>>, <<101, 813, 7705>>, <<101, 816, 7707>>,
      <<102, 775, 7711>>, <<103, 769, 501>>, <<103, 770, 285>>, <<103, 772, 7713>>, <<103, 774, 287>>,
      <<103, 775, 289>>, <<103, 780, 487>>, <<103, 807, 291>>, <<104, 770, 293>>, <<104, 775, 7715>>,
      <<104, 776, 7719>>, <<104, 780, 543>>, <<104, 803, 7717>>, <<104, 807, 7721>>, <<104, 814, 7723>>,
      <<104, 817, 7830>>, <<105, 768, 236>>, <<105, 769, 237>>, <<105, 770, 238>>, <<105, 771, 297>>,
      <<105, 772, 299>>, <<105, 774, 301>>, <<105, 776, 239>>, <<105, 777, 7881>>, <<105, 780, 464>>,
      <<105, 783, 521>>, <<105, 785, 523>>, <<105, 803, 7883>>, <<105, 808, 303>>, <<105, 816, 7725>>,
      <<106, 770, 309>>, <<106, 780, 496>>, <<107, 769, 7729>>, <<107, 780, 489>>, <<107, 803, 7731>>,
      <<107, 807, 311>>, <<107, 817, 7733>>, <<108, 769, 314>>, <<108, 780, 318>>, <<108, 803, 7735>>,
      <<108, 807, 316>>, <<108, 813, 7741>>, <<108, 817, 7739>>, <<109, 769, 7743>>, <<109, 775, 7745>>,
      <<109, 803, 7747>>, <<110, 768, 505>>, <<110, 769, 324>>, <<110, 771, 241>>, <<110, 775, 7749>>,
      <<110, 780, 328>>, <<110, 803, 7751>>, <<110, 807, 326>>, <<110, 813, 7755>>, <<110, 817, 7753>>,
      <<111, 768, 242>>, <<111, 769, 243>>, <<111, 770, 244>>, <<111, 771, 245>>, <<111, 772, 333>>,
      <<111, 774, 335>>, <<111, 775, 559>>, <<111, 776, 246>>, <<111, 777, 7887>>, <<111, 779, 337>>,
      <<111, 780, 466>>, <<111, 783, 525>>, <<111, 785, 527>>, <<111, 795, 417>>, <<111, 803, 7885>>,
      <<111, 808, 491>>, <<112, 769, 7765>>, <<112, 775, 7767>>, <<114, 769, 341>>, <<114, 775, 7769>>,
      <<114, 780, 345>>, <<114, 783, 529>>, <<114, 785, 531>>, <<114, 803, 7771>>, <<114, 807, 343>>,
      <<114, 817, 7775>>, <<115, 769, 347>>, <<115, 770, 349>>, <<115, 775, 7777>>, <<115, 780, 353>>,
      <<115, 803, 7779>>, <<115, 806, 537>>, <<115, 807, 351>>, <<116, 775, 7787>>, <<116, 776, 7831>>,
      <<116, 780, 357>>, <<116, 803, 7789>>, <<116, 806, 539>>, <<116, 807, 355>>, <<116, 813, 7793>>,
      <<116, 817, 7791>>, <<117, 768, 249>>, <<117, 769, 250>>, <<117, 770, 251>>, <<117, 771, 361>>,
      <<117, 772, 363>>, <<117, 774, 365>>, <<117, 776, 252>>, <<117, 777, 7911>>, <<117, 778, 367>>,
      <<117, 779, 369>>, <<117, 780, 468>>, <<117, 783, 533>>, <<117, 785, 535>>, <<117, 795, 432>>,
      <<117, 803, 7909>>, <<117, 804, 7795>>, <<117, 808, 371>>, <<117, 813, 7799>>, <<117, 816, 7797>>,
      <<118, 771, 7805>>, <<118, 803, 7807>>, <<119, 768, 7809>>, <<119, 769, 7811>>, <<119, 770, 373>>,
      <<119, 775, 7815>>, <<119, 776, 7813>>, <<119, 778, 7832>>, <<119, 803, 7817>>, <<120, 775, 7819>>,
      <<120, 776, 7821>>, <<121, 768, 7923>>, <<121, 769, 253>>, <<121, 770, 375>>, <<121, 771, 7929>>,
      <<121, 772, 563>>, <<121, 775, 7823>>, <<121, 776, 255>>, <<121, 777, 7927>>, <<121, 778, 7833>>,
      <<121, 803, 7925>>, <<122, 769, 378>>, <<122, 770, 7825>>, <<122, 775, 380>>, <<122, 780, 382>>,
      <<122, 803, 7827>>, <<122, 817, 7829>>, <<168, 768, 8173>>, <<168, 769, 901>>, <<168, 834, 8129>>,
      <<194, 768, 7846>>, <<194, 769, 7844>>, <<194, 771, 7850>>, <<194, 777, 7848>>, <<196, 772, 478>>,
      <<197, 769, 506>>, <<198, 769, 508>>, <<198, 772, 482>>, <<199, 769, 7688>>, <<202, 768, 7872>>,
      <<202, 769, 7870>>, <<202, 771, 7876>>, <<202, 777, 7874>>, <<207, 769, 7726>>, <<212, 768, 7890>>,
      <<212, 769, 7888>>, <<212, 771, 7894>>, <<212, 777, 7892>>, <<213, 769, 7756>>, <<213, 772, 556>>,
      <<213, 776, 7758>>, <<214, 772, 554>>, <<216, 769, 510>>, <<220, 768, 475>>, <<220, 769, 471>>,
      <<220, 772, 469>>, <<220, 780, 473>>, <<226, 768, 7847>>, <<226, 769, 7845>>, <<226, 771, 7851>>,
      <<226, 777, 7849>>, <<228, 772, 479>>, <<229, 769, 507>>, <<230, 769, 509>>, <<230, 772, 483>>,
      <<231, 769, 7689>>, <<234, 768, 7873>>, <<234, 769, 7871>>, <<234, 771, 7877>>, <<234, 777, 7875>>,
      <<239, 769, 7727>>, <<244, 768, 7891>>, <<244, 769, 7889>>, <<244, 771, 7895>>, <<244, 777, 7893>>,
      <<245, 769, 7757>>, <<245, 772, 557>>, <<245, 776, 7759>>, <<246, 772, 555>>, <<248, 769, 511>>,
      <<252, 768, 476>>, <<252, 769, 472>>, <<252, 772, 470>>, <<252, 780, 474>>, <<258, 768, 7856>>,
      <<258, 769, 7854>>, <<258, 771, 7860>>, <<258, 777, 7858>>, <<259, 768, 7857>>, <<259, 769, 7855>>,
      <<259, 771, 7861>>, <<259, 777, 7859>>, <<274, 768, 7700>>, <<274, 769, 7702>>, <<275, 768, 7701>>,
      <<275, 769, 7703>>, <<332, 768, 7760>>, <<332, 769, 7762>>, <<333, 768, 7761>>, <<333, 769, 7763>>,
      <<346, 775, 7780>>, <<347, 775, 7781>>, <<352, 775, 7782>>, <<353, 775, 7783>>, <<360, 769, 7800>>,
      <<361, 769, 7801>>, <<362, 776, 7802>>, <<363, 776, 7803>>, <<383, 775, 7835>>, <<416, 768, 7900>>,
      <<416, 769, 7898>>, <<416, 771, 7904>>, <<416, 777, 7902>>, <<416, 803, 7906>>, <<417, 768, 7901>>,
      <<417, 769, 7899>>, <<417, 771, 7905>>, <<417, 777, 7903>>, <<417, 803, 7907>>, <<431, 768, 7914>>,
      <<431, 769, 7912>>, <<431, 771, 7918>>, <<431, 777, 7916>>, <<431, 803, 7920>>, <<432, 768, 7915>>,
      <<432, 769, 7913>>, <<432, 771, 7919>>, <<432, 777, 7917>>, <<432, 803, 7921>>, <<439, 780, 494>>,
      <<490, 772, 492>>, <<491, 772, 493>>, <<550, 772, 480>>, <<551, 772, 481>>, <<552, 774, 7708>>,
      <<553, 774, 7709>>, <<558, 772, 560>>, <<559, 772, 561>>, <<658, 780, 495>>, <<913, 768, 8122>>,
      <<913, 769, 902>>, <<913, 772, 8121>>, <<913, 774, 8120>>, <<913, 787, 7944>>, <<913, 788, 7945>>,
      <<913, 837, 8124>>, <<917, 768, 8136>>, <<917, 769, 904>>, <<917, 787, 7960>>, <<917, 788, 7961>>,
      <<919, 768, 8138>>, <<919, 769, 905>>, <<919, 787, 7976>>, <<919, 788, 7977>>, <<919, 837, 8140>>,
      <<921, 768, 8154>>, <<921, 769, 906>>, <<921, 772, 8153>>, <<921, 774, 8152>>, <<921, 776, 938>>,
      <<921, 787, 7992>>, <<921, 788, 7993>>, <<927, 768, 8184>>, <<927, 769, 908>>, <<927, 787, 8008>>,
      <<927, 788, 8009>>, <<929, 788, 8172>>, <<933, 768, 8170>>, <<933, 769, 910>>, <<933, 772, 8169>>,
      <<933, 774, 8168>>, <<933, 776, 939>>, <<933, 788, 8025>>, <<937, 768, 8186>>, <<937, 769, 911>>,
      <<937, 787, 8040>>, <<937, 788, 8041>>, <<937, 837, 8188>>, <<940, 837, 8116>>, <<942, 837, 8132>>,
      <<945, 768, 8048>>, <<945, 769, 940>>, <<945, 772, 8113>>, <<945, 774, 8112>>, <<945, 787, 7936>>,
      <<945, 788, 7937>>, <<945, 834, 8118>>, <<945, 837, 8115>>, <<949, 768, 8050>>, <<949, 769, 941>>,
      <<949, 787, 7952>>, <<949, 788, 7953>>, <<951, 768, 8052>>, <<951, 769, 942>>, <<951, 787, 7968>>,
      <<951, 788, 7969>>, <<951, 834, 8134>>, <<951, 837, 8131>>, <<953, 768, 8054>>, <<953, 769, 943>>,
      <<953, 772, 8145>>, <<953, 774, 8144>>, <<953, 776, 970>>, <<953, 787, 7984>>, <<953, 788, 7985>>,
      <<953, 834, 8150>>, <<959, 768, 8056>>, <<959, 769, 972>>, <<959, 787, 8000>>, <<959, 788, 8001>>,
      <<961, 787, 8164>>, <<961, 788, 8165>>, <<965, 768, 8058>>, <<965, 769, 973>>, <<965, 772, 8161>>,
      <<965, 774, 8160>>, <<965, 776, 971>>, <<965, 787, 8016>>, <<965, 788, 8017>>, <<965, 834, 8166>>,
      <<969, 768, 8060>>, <<969, 769, 974>>, <<969, 787, 8032>>, <<969, 788, 8033>>, <<969, 834, 8182>>,
      <<969, 837, 8179>>, <<970, 768, 8146>>, <<970, 769, 912>>, <<970, 834, 8151>>, <<971, 768, 8162>>,
      <<971, 769, 944>>, <<971, 834, 8167>>, <<974, 837, 8180>>, <<978, 769, 979>>, <<978, 776, 980>>,
      <<1030, 776, 1031>>, <<1040, 774, 1232>>, <<1040, 776, 1234>>, <<1043, 769, 1027>>,
      <<1045, 768, 1024>>, <<1045, 774, 1238>>, <<1045, 776, 1025>>, <<1046, 774, 1217>>,
      <<1046, 776, 1244>>, <<1047, 776, 1246>>, <<1048, 768, 1037>>, <<1048, 772, 1250>>,
      <<1048, 774, 1049>>, <<1048, 776, 1252>>, <<1050, 769, 1036>>, <<1054, 776, 1254>>,
      <<1059, 772, 1262>>, <<1059, 774, 1038>>, <<1059, 776, 1264>>, <<1059, 779, 1266>>,
      <<1063, 776, 1268>>, <<1067, 776, 1272>>, <<1069, 776, 1260>>, <<1072, 774, 1233>>,
      <<1072, 776, 1235>>, <<1075, 769, 1107>>, <<1077, 768, 1104>>, <<1077, 774, 1239>>,
      <<1077, 776, 1105>>, <<1078, 774, 1218>>, <<1078, 776, 1245>>, <<1079, 776, 1247>>,
      <<1080, 768, 1117>>, <<1080, 772, 1251>>, <<1080, 774, 1081>>, <<1080, 776, 1253>>,
      <<1082, 769, 1116>>, <<1086, 776, 1255>>, <<1091, 772, 1263>>, <<1091, 774, 1118>>,
      <<1091, 776, 1265>>, <<1091, 779, 1267>>, <<1095, 776, 1269>>, <<1099, 776, 1273>>,
      <<1101, 776, 1261>>, <<1110, 776, 1111>>, <<1140, 783, 1142>>, <<1141, 783, 1143>>,
      <<1240, 776, 1242>>, <<1241, 776, 1243>>, <<1256, 776, 1258>>, <<1257, 776, 1259>>,
      <<1575, 1619, 1570>>, <<1575, 1620, 1571>>, <<1575, 1621, 1573>>, <<1608, 1620, 1572>>,
      <<1610, 1620, 1574>>, <<1729, 1620, 1730>>, <<1746, 1620, 1747>>, <<1749, 1620, 1728>>,
      <<2344, 2364, 2345>>, <<2352, 2364, 2353>>, <<2355, 2364, 2356>>, <<2503, 2494, 2507>>,
      <<2503, 2519, 2508>>, <<2887, 2878, 2891>>, <<2887, 2902, 2888>>, <<2887, 2903, 2892>>,
      <<2962, 3031, 2964>>, <<3014, 3006, 3018>>, <<3014, 3031, 3020>>, <<3015, 3006, 3019>>,
      <<3142, 3158, 3144>>, <<3263, 3285, 3264>>, <<3270, 3266, 3274>>, <<3270, 3285, 3271>>,
      <<3270, 3286, 3272>>, <<3274, 3285, 3275>>, <<3398, 3390, 3402>>, <<3398, 3415, 3404>>,
      <<3399, 3390, 3403>>, <<3545, 3530, 3546>>, <<3545, 3535, 3548>>, <<3545, 3551, 3550>>,
      <<3548, 3530, 3549>>, <<4133, 4142, 4134>>, <<6917, 6965, 6918>>, <<6919, 6965, 6920>>,
      <<6921, 6965, 6922>>, <<6923, 6965, 6924>>, <<6925, 6965, 6926>>, <<6929, 6965, 6930>>,
      <<6970, 6965, 6971>>, <<6972, 6965, 6973>>, <<6974, 6965, 6976>>, <<6975, 6965, 6977>>,
      <<6978, 6965, 6979>>, <<7734, 772, 7736>>, <<7735, 772, 7737>>, <<7770, 772, 7772>>,
      <<7771, 772, 7773>>, <<7778, 775, 7784>>, <<7779, 775, 7785>>, <<7840, 770, 7852>>,
      <<7840, 774, 7862>>, <<7841, 770, 7853>>, <<7841, 774, 7863>>, <<7864, 770, 7878>>,
      <<7865, 770, 7879>>, <<7884, 770, 7896>>, <<7885, 770, 7897>>, <<7936, 768, 7938>>,
      <<7936, 769, 7940>>, <<7936, 834, 7942>>, <<7936, 837, 8064>>, <<7937, 768, 7939>>,
      <<7937, 769, 7941>>, <<7937, 834, 7943>>, <<7937, 837, 8065>>, <<7938, 837, 8066>>,
      <<7939, 837, 8067>>, <<7940, 837, 8068>>, <<7941, 837, 8069>>, <<7942, 837, 8070>>,
      <<7943, 837, 8071>>, <<7944, 768, 7946>>, <<7944, 769, 7948>>, <<7944, 834, 7950>>,
      <<7944, 837, 8072>>, <<7945, 768, 7947>>, <<7945, 769, 7949>>, <<7945, 834, 7951>>,
      <<7945, 837, 8073>>, <<7946, 837, 8074>>, <<7947, 837, 8075>>, <<7948, 837, 8076>>,
      <<7949, 837, 8077>>, <<7950, 837, 8078>>, <<7951, 837, 8079>>, <<7952, 768, 7954>>,
      <<7952, 769, 7956>>, <<7953, 768, 7955>>, <<7953, 769, 7957>>, <<7960, 768, 7962>>,
      <<7960, 769, 7964>>, <<7961, 768, 7963>>, <<7961, 769, 7965>>, <<7968, 768, 7970>>,
      <<7968, 769, 7972>>, <<7968, 834, 7974>>, <<7968, 837, 8080>>, <<7969, 768, 7971>>,
      <<7969, 769, 7973>>, <<7969, 834, 7975>>, <<7969, 837, 8081>>, <<7970, 837, 8082>>,
      <<7971, 837, 8083>>, <<7972, 837, 8084>>, <<7973, 837, 8085>>, <<7974, 837, 8086>>,
      <<7975, 837, 8087>>, <<7976, 768, 7978>>, <<7976, 769, 7980>>, <<7976, 834, 7982>>,
      <<7976, 837, 8088>>, <<7977, 768, 7979>>, <<7977, 769, 7981>>, <<7977, 834, 7983>>,
      <<7977, 837, 8089>>, <<7978, 837, 8090>>, <<7979, 837, 8091>>, <<7980, 837, 8092>>,
      <<7981, 837, 8093>>, <<7982, 837, 8094>>, <<7983, 837, 8095>>, <<7984, 768, 7986>>,
      <<7984, 769, 7988>>, <<7984, 834, 7990>>, <<7985, 768, 7987>>, <<7985, 769, 7989>>,
      <<7985, 834, 7991>>, <<7992, 768, 7994>>, <<7992, 769, 7996>>, <<7992, 834, 7998>>,
      <<7993, 768, 7995>>, <<7993, 769, 7997>>, <<7993, 834, 7999>>, <<8000, 768, 8002>>,
      <<8000, 769, 8004>>, <<8001, 768, 8003>>, <<8001, 769, 8005>>, <<8008, 768, 8010>>,
      <<8008, 769, 8012>>, <<8009, 768, 8011>>, <<8009, 769, 8013>>, <<8016, 768, 8018>>,
      <<8016, 769, 8020>>, <<8016, 834, 8022>>, <<8017, 768, 8019>>, <<8017, 769, 8021>>,
      <<8017, 834, 8023>>, <<8025, 768, 8027>>, <<8025, 769, 8029>>, <<8025, 834, 8031>>,
      <<8032, 768, 8034>>, <<8032, 769, 8036>>, <<8032, 834, 8038>>, <<8032, 837, 8096>>,
      <<8033, 768, 8035>>, <<8033, 769, 8037>>, <<8033, 834, 8039>>, <<8033, 837, 8097>>,
      <<8034, 837, 8098>>, <<8035, 837, 8099>>, <<8036, 837, 8100>>, <<8037, 837, 8101>>,
      <<8038, 837, 8102>>, <<8039, 837, 8103>>, <<8040, 768, 8042>>, <<8040, 769, 8044>>,
      <<8040, 834, 8046>>, <<8040, 837, 8104>>, <<8041, 768, 8043>>, <<8041, 769, 8045>>,
      <<8041, 834, 8047>>, <<8041, 837, 8105>>, <<8042, 837, 8106>>, <<8043, 837, 8107>>,
      <<8044, 837, 8108>>, <<8045, 837, 8109>>, <<8046, 837, 8110>>, <<8047, 837, 8111>>,
      <<8048, 837, 8114>>, <<8052, 837, 8130>>, <<8060, 837, 8178>>, <<8118, 837, 8119>>,
      <<8127, 768, 8141>>, <<8127, 769, 8142>>, <<8127, 834, 8143>>, <<8134, 837, 8135>>,
      <<8182, 837, 8183>>, <<8190, 768, 8157>>, <<8190, 769, 8158>>, <<8190, 834, 8159>>,
      <<8592, 824, 8602>>, <<8594, 824, 8603>>, <<8596, 824, 8622>>, <<8656, 824, 8653>>,
      <<8658, 824, 8655>>, <<8660, 824, 8654>>, <<8707, 824, 8708>>, <<8712, 824, 8713>>,
      <<8715, 824, 8716>>, <<8739, 824, 8740>>, <<8741, 824, 8742>>, <<8764, 824, 8769>>,
      <<8771, 824, 8772>>, <<8773, 824, 8775>>, <<8776, 824, 8777>>, <<8781, 824, 8813>>,
      <<8801, 824, 8802>>, <<8804, 824, 8816>>, <<8805, 824, 8817>>, <<8818, 824, 8820>>,
      <<8819, 824, 8821>>, <<8822, 824, 8824>>, <<8823, 824, 8825>>, <<8826, 824, 8832>>,
      <<8827, 824, 8833>>, <<8828, 824, 8928>>, <<8829, 824, 8929>>, <<8834, 824, 8836>>,
      <<8835, 824, 8837>>, <<8838, 824, 8840>>, <<8839, 824, 8841>>, <<8849, 824, 8930>>,
      <<8850, 824, 8931>>, <<8866, 824, 8876>>, <<8872, 824, 8877>>, <<8873, 824, 8878>>,
      <<8875, 824, 8879>>, <<8882, 824, 8938>>, <<8883, 824, 8939>>, <<8884, 824, 8940>>,
      <<8885, 824, 8941>>, <<12358, 12441, 12436>>, <<12363, 12441, 12364>>, <<12365, 12441, 12366>>,
      <<12367, 12441, 12368>>, <<12369, 12441, 12370>>, <<12371, 12441, 12372>>, <<12373, 12441, 12374>>,
      <<12375, 12441, 12376>>, <<12377, 12441, 12378>>, <<12379, 12441, 12380>>, <<12381, 12441, 12382>>,
      <<12383, 12441, 12384>>, <<12385, 12441, 12386>>, <<12388, 12441, 12389>>, <<12390, 12441, 12391>>,
      <<12392, 12441, 12393>>, <<12399, 12441, 12400>>, <<12399, 12442, 12401>>, <<12402, 12441, 12403>>,
      <<12402, 12442, 12404>>, <<12405, 12441, 12406>>, <<12405, 12442, 12407>>, <<12408, 12441, 12409>>,
      <<12408, 12442, 12410>>, <<12411, 12441, 12412>>, <<12411, 12442, 12413>>, <<12445, 12441, 12446>>,
      <<12454, 12441, 12532>>, <<12459, 12441, 12460>>, <<12461, 12441, 12462>>, <<12463, 12441, 12464>>,
      <<12465, 12441, 12466>>, <<12467, 12441, 12468>>, <<12469, 12441, 12470>>, <<12471, 12441, 12472>>,
      <<12473, 12441, 12474>>, <<12475, 12441, 12476>>, <<12477, 12441, 12478>>, <<12479, 12441, 12480>>,
      <<12481, 12441, 12482>>, <<12484, 12441, 12485>>, <<12486, 12441, 12487>>, <<12488, 12441, 12489>>,
      <<12495, 12441, 12496>>, <<12495, 12442, 12497>>, <<12498, 12441, 12499>>, <<12498, 12442, 12500>>,
      <<12501, 12441, 12502>>, <<12501, 12442, 12503>>, <<12504, 12441, 12505>>, <<12504, 12442, 12506>>,
      <<12507, 12441, 12508>>, <<12507, 12442, 12509>>, <<12527, 12441, 12535>>, <<12528, 12441, 12536>>,
      <<12529, 12441, 12537>>, <<12530, 12441, 12538>>, <<12541, 12441, 12542>>, <<69785, 69818, 69786>>,
      <<69787, 69818, 69788>>, <<69797, 69818, 69803>>, <<69937, 69927, 69934>>, <<69938, 69927, 69935>>,
      <<70471, 70462, 70475>>, <<70471, 70487, 70476>>, <<70841, 70832, 70844>>, <<70841, 70842, 70843>>,
      <<70841, 70845, 70846>>, <<71096, 71087, 71098>>, <<71097, 71087, 71099>>, <<71989, 71984, 71992>>
    >>

\* the position in lo..hi of the entry of the ascending table whose first
\* element is c, 0 when there is none
RECURSIVE Find(_, _, _, _)
Find(table, c, lo, hi) ==
    IF lo > hi THEN 0
    ELSE LET mid == (lo + hi) \div 2 IN
         IF table[mid][1] = c THEN mid
         ELSE IF table[mid][1] < c THEN Find(table, c, mid + 1, hi)
         ELSE Find(table, c, lo, mid - 1)

\* the position in lo..hi of the range of the ascending table of ranges
\* that has c, 0 when there is none
RECURSIVE FindRange(_, _, _, _)
FindRange(table, c, lo, hi) ==
    IF lo > hi THEN 0
    ELSE LET mid == (lo + hi) \div 2 IN
         IF c < table[mid][1] THEN FindRange(table, c, lo, mid - 1)
         ELSE IF c > table[mid][2] THEN FindRange(table, c, mid + 1, hi)
         ELSE mid

\* the position in lo..hi of the entry of the ascending table of pairs for
\* the pair a, b, 0 when there is none
RECURSIVE FindPair(_, _, _, _, _)
FindPair(table, a, b, lo, hi) ==
    IF lo > hi THEN 0
    ELSE LET mid == (lo + hi) \div 2 IN
         IF table[mid][1] = a /\ table[mid][2] = b THEN mid
         ELSE IF table[mid][1] < a \/ (table[mid][1] = a /\ table[mid][2] < b)
              THEN FindPair(table, a, b, mid + 1, hi)
         ELSE FindPair(table, a, b, lo, mid - 1)

\* the Hangul syllables U+AC00 to U+D7A3
IsHangulSyllable(c) == c \in 44032..55203

\* The full compatibility decomposition of one character.  No character
\* below U+00A0 has one; a Hangul syllable is decomposed into its leading
\* consonant, vowel and trailing consonant.
Decomposition(c) ==
    IF c < 160 THEN <<c>>
    ELSE IF IsHangulSyllable(c)
    THEN LET s == c - 44032
             l == 4352 + (s \div 588)
             vowel == 4449 + ((s % 588) \div 28)
             t == 4519 + (s % 28)
         IN  IF t = 4519 THEN <<l, vowel>> ELSE <<l, vowel, t>>
    ELSE CHOOSE ds \in
             {IF Find(table, c, 1, Len(table)) = 0 THEN <<c>>
              ELSE table[Find(table, c, 1, Len(table))][2] :
                table \in {Decompositions}} : TRUE

\* the canonical combining class: 0 for a starter.  No character below
\* U+0300 is a mark.
CombiningClass(c) ==
    IF c < 768 THEN 0
    ELSE CHOOSE class \in
             {IF FindRange(table, c, 1, Len(table)) = 0 THEN 0
              ELSE table[FindRange(table, c, 1, Len(table))][3] :
                table \in {CombiningClasses}} : TRUE

\* The character a and b compose to, 0 when they do not compose.  No
\* character below U+0300 comes second in a composition.  A leading
\* consonant and a vowel, and a syllable without trailing consonant and a
\* trailing consonant, compose to a Hangul syllable.
Composite(a, b) ==
    IF b < 768 THEN 0
    ELSE IF a \in 4352..4370 /\ b \in 4449..4469
    THEN 44032 + ((a - 4352) * 21 + (b - 4449)) * 28
    ELSE IF IsHangulSyllable(a) /\ (a - 44032) % 28 = 0 /\ b \in 4520..4546
    THEN a + (b - 4519)
    ELSE CHOOSE composed \in
             {IF FindPair(table, a, b, 1, Len(table)) = 0 THEN 0
              ELSE table[FindPair(table, a, b, 1, Len(table))][3] :
                table \in {Compositions}} : TRUE

\* the position after which a mark of class k goes in out: before the
\* marks of a higher class at its end
RECURSIVE MarkPosition(_, _, _)
MarkPosition(out, j, k) ==
    IF j > 0 /\ CombiningClass(out[j]) > k THEN MarkPosition(out, j - 1, k) ELSE j

\* the decomposed characters ds put after the decomposed text out in
\* canonical order: a starter at the end, a mark after the marks of its
\* class and of lower classes
RECURSIVE PutInOrder(_, _)
PutInOrder(out, ds) ==
    IF ds = <<>> THEN out
    ELSE IF CombiningClass(ds[1]) = 0 THEN PutInOrder(Append(out, ds[1]), Tail(ds))
    ELSE LET j == MarkPosition(out, Len(out), CombiningClass(ds[1])) IN
         PutInOrder(SubSeq(out, 1, j) \o <<ds[1]>> \o SubSeq(out, j + 1, Len(out)),
                    Tail(ds))

\* nfkd(): the decomposed text of the code points cps in canonical order,
\* after out
RECURSIVE Nfkd(_, _)
Nfkd(out, cps) ==
    IF cps = <<>> THEN out
    ELSE Nfkd(PutInOrder(out, Decomposition(cps[1])), Tail(cps))

\* the position of the last starter of out at or before j, 0 when there is
\* none
RECURSIVE LastStarter(_, _)
LastStarter(out, j) ==
    IF j > 0 /\ CombiningClass(out[j]) # 0 THEN LastStarter(out, j - 1) ELSE j

\* One character d of a decomposed text in canonical order put after the
\* composed text out: d is composed with the last starter of out when the
\* two have a composition and no character between them has the class of d
\* or a higher one (d is not blocked), and appended otherwise.
PutCharacter(out, d) ==
    LET j == LastStarter(out, Len(out)) IN
    IF /\ j > 0
       /\ j = Len(out) \/ CombiningClass(out[Len(out)]) < CombiningClass(d)
       /\ Composite(out[j], d) # 0
    THEN [out EXCEPT ![j] = Composite(out[j], d)]
    ELSE Append(out, d)

RECURSIVE PutCharacters(_, _)
PutCharacters(out, ds) ==
    IF ds = <<>> THEN out ELSE PutCharacters(PutCharacter(out, ds[1]), Tail(ds))

\* nfkc(): the code points cps decomposed, put in canonical order and
\* composed
Nfkc(cps) == PutCharacters(<<>>, Nfkd(<<>>, cps))

HexDigits ==
    <<"0", "1", "2", "3", "4", "5", "6", "7", "8", "9", "A", "B", "C", "D", "E", "F">>

RECURSIVE Hex(_)
Hex(n) ==
    IF n < 16 THEN HexDigits[n + 1]
    ELSE Hex(n \div 16) \o HexDigits[(n % 16) + 1]

\* the printable ASCII characters, from the space (32) to the tilde (126);
\* the quotation mark, the backslash and the grave accent are written by
\* their code point
AsciiText ==
    <<" ", "!", "", "#", "$", "%", "&", "'", "(", ")", "*", "+",
      ",", "-", ".", "/", "0", "1", "2", "3", "4", "5", "6", "7",
      "8", "9", ":", ";", "<", "=", ">", "?", "@", "A", "B", "C",
      "D", "E", "F", "G", "H", "I", "J", "K", "L", "M", "N", "O",
      "P", "Q", "R", "S", "T", "U", "V", "W", "X", "Y", "Z", "[",
      "", "]", "^", "_", "", "a", "b", "c", "d", "e", "f", "g",
      "h", "i", "j", "k", "l", "m", "n", "o", "p", "q", "r", "s",
      "t", "u", "v", "w", "x", "y", "z", "{", "|", "}", "~">>

\* A character as the strings of this module write it: a printable ASCII
\* character as itself, every other one (and the quotation mark, the
\* backslash and the grave accent) as \u{code point}.  Different texts are
\* different strings.
CharText(c) ==
    IF c \in 32..126 /\ c \notin {34, 92, 96} THEN AsciiText[c - 31]
    ELSE "\\u{" \o Hex(c) \o "}"

RECURSIVE Text(_)
Text(cps) == IF cps = <<>> THEN "" ELSE CharText(cps[1]) \o Text(Tail(cps))

\* shift_jis_code_point_array_to_string: SHIFT_JIS.decode then nfkc()
shift_jis_code_point_array_to_string(v) == Text(Nfkc(ShiftJisDecode(v)))

\* the panics of the two unwraps that decode a packet
DecodeErrors == {"from_utf8", "from_str"}

\* A JSON value as serde_json reads it: [json |-> "null"],
\* [json |-> "bool", value |-> b], [json |-> "number", value |-> n] for an
\* integer n, [json |-> "fraction"] for every other number,
\* [json |-> "string", value |-> s], [json |-> "array", value |-> items] with
\* items the sequence of the elements, and [json |-> "object", value |-> m]
\* with m the function from the keys to their values.
JString(s) == [json |-> "string", value |-> s]

JNumber(n) == [json |-> "number", value |-> n]

JArray(items) == [json |-> "array", value |-> items]

JObject(members) == [json |-> "object", value |-> members]

\* the position of the name in the sequence names
Position(names, name) == CHOOSE i \in DOMAIN names : names[i] = name

\* derive(Deserialize) of a struct with the fields names, in their order:
\* the JSON values given for the fields.  An object gives the values of its
\* keys that name a field, other keys are ignored; an array gives
\* its elements to the fields in order and fails when it has more elements
\* than the struct has fields; no other value is read as a struct.
StructFields(j, names) ==
    IF j.json = "object"
    THEN [ok |-> TRUE,
          fields |-> [name \in {names[i] : i \in DOMAIN names} \cap DOMAIN j.value
                        |-> j.value[name]]]
    ELSE IF j.json = "array" /\ Len(j.value) <= Len(names)
    THEN [ok |-> TRUE,
          fields |-> [name \in {names[i] : i \in 1..Len(j.value)}
                        |-> j.value[Position(names, name)]]]
    ELSE [ok |-> FALSE]

\* Deserialize for String: a JSON string
IsString(j) == j.json = "string"

\* Deserialize for Vec<u8>: an array of numbers from 0 to 255
IsBytes(j) ==
    /\ j.json = "array"
    /\ \A i \in DOMAIN j.value :
          j.value[i].json = "number" /\ j.value[i].value \in 0..255

\* the bytes of the array
Bytes(j) == [i \in DOMAIN j.value |-> j.value[i].value]

\* Deserialize for User, given what StructFields read: the four fields are
\* required strings
UserOfFields(read) ==
    LET names == <<"uid", "playKey", "displayName", "connectCode">> IN
    IF ~read.ok THEN [ok |-> FALSE]
    ELSE IF \E i \in DOMAIN names :
               \/ names[i] \notin DOMAIN read.fields
               \/ ~IsString(read.fields[names[i]])
    THEN [ok |-> FALSE]
    ELSE [ok |-> TRUE,
          user |-> [uid |-> read.fields["uid"].value,
                    play_key |-> read.fields["playKey"].value,
                    display_name |-> read.fields["displayName"].value,
                    connect_code |-> read.fields["connectCode"].value]]

\* Deserialize for User
DeserializeUser(j) ==
    CHOOSE user \in {UserOfFields(read) :
                       read \in {StructFields(j, <<"uid", "playKey", "displayName",
                                                   "connectCode">>)}} : TRUE

\* Deserialize for Search, given what StructFields read: connectCode is
\* None when it is not given (serde(default)) and read by
\* shift_jis_code_point_array_to_string from a Vec<u8> when it is; mode is
\* required, the number of a variant of OnlinePlayMode (Deserialize_repr)
SearchOfFields(read) ==
    IF ~read.ok THEN [ok |-> FALSE]
    ELSE IF "connectCode" \in DOMAIN read.fields /\ ~IsBytes(read.fields["connectCode"])
    THEN [ok |-> FALSE]
    ELSE IF "mode" \notin DOMAIN read.fields THEN [ok |-> FALSE]
    ELSE IF \/ read.fields["mode"].json # "number"
            \/ read.fields["mode"].value \notin DOMAIN OnlinePlayMode
    THEN [ok |-> FALSE]
    ELSE [ok |-> TRUE,
          search |->
            [connect_code |->
               IF "connectCode" \in DOMAIN read.fields
               THEN shift_jis_code_point_array_to_string(
                        Bytes(read.fields["connectCode"]))
               ELSE None,
             mode |-> OnlinePlayMode[read.fields["mode"].value]]]

\* Deserialize for Search
DeserializeSearch(j) ==
    CHOOSE search \in {SearchOfFields(read) :
                         read \in {StructFields(j, <<"connectCode", "mode">>)}} : TRUE

\* Deserialize for CreateTicket, given what StructFields read and what
\* Deserialize for Search and for User gave: the four fields are required
CreateTicketOfFields(read, search, user) ==
    IF ~read.ok THEN [ok |-> FALSE]
    ELSE IF \/ ~IsString(read.fields["appVersion"])
            \/ ~IsString(read.fields["ipAddressLan"])
            \/ ~search.ok
            \/ ~user.ok
    THEN [ok |-> FALSE]
    ELSE [ok |-> TRUE,
          ticket |-> [app_version |-> read.fields["appVersion"].value,
                      ip_address_lan |-> read.fields["ipAddressLan"].value,
                      search |-> search.search,
                      user |-> user.user]]

\* Deserialize for CreateTicket
DeserializeCreateTicket(j) ==
    LET names == <<"appVersion", "ipAddressLan", "search", "user">> IN
    CHOOSE ticket \in
        {IF read.ok /\ \A i \in DOMAIN names : names[i] \in DOMAIN read.fields
         THEN CHOOSE t \in {CreateTicketOfFields(read, search, user) :
                              search \in {DeserializeSearch(read.fields["search"])},
                              user \in {DeserializeUser(read.fields["user"])}} : TRUE
         ELSE [ok |-> FALSE] :
           read \in {StructFields(j, names)}} : TRUE

\* std::str::from_utf8 followed by serde_json::from_str::<CreateTicket>.
\* A payload is [kind |-> "not_utf8"] for bytes that are not UTF-8,
\* [kind |-> "not_json"] for a text that is not one JSON value or that
\* repeats a key of a struct in its object, and
\* [kind |-> "json", value |-> j] for the text of the JSON value j.
DecodeTicket(payload) ==
    IF payload.kind = "not_utf8" THEN [ok |-> FALSE, err |-> "from_utf8"]
    ELSE IF payload.kind # "json" THEN [ok |-> FALSE, err |-> "from_str"]
    ELSE CHOOSE decoded \in
             {IF read.ok THEN [ok |-> TRUE, ticket |-> read.ticket]
              ELSE [ok |-> FALSE, err |-> "from_str"] :
                read \in {DeserializeCreateTicket(payload.value)}} : TRUE

(***************************************************************************)
(* The session builder.                                                    *)
(***************************************************************************)
\* Address::ip and Address::port of the transport address of a peer slot
PeerAddress(p) == [ip |-> "127.0.0.1", port |-> 40000 + p]

\* The timestamps Utc::now().to_rfc3339() may return.  The clock is read anew
\* in every call of create_game: two calls may read different instants, or
\* the same one.
Times == {"2022-08-01T10:00:00.810955078+00:00", "2022-08-01T10:00:00.810961353+00:00"}

Range(s) == {s[i] : i \in DOMAIN s}

\* all orders in which a shuffle can leave the slice
Shuffles(s) ==
    {q \in [DOMAIN s -> Range(s)] : \A i, j \in DOMAIN s : i # j => q[i] # q[j]}

\* The outcomes of thread_rng() in one call of create_game: the order in
\* which choose_multiple samples the port slice, the port choose picks, and
\* the clock read by get_match_id.
Rngs(mode) ==
    [shuffle : Shuffles(get_ports(mode)),
     host : Range(get_ports(mode)),
     now : Times]

\* the randomness of the calls the loop makes: only Direct groups are built
DirectRngs == Rngs("Direct")

Min(a, b) == IF a < b THEN a ELSE b

\* amount draws with replacement that all pick the same element
choose_multiple_Repeat(shuffled, amount) ==
    [i \in 1..Min(amount, Len(shuffled)) |-> shuffled[1]]

\* SliceRandom::choose_multiple: amount distinct elements in random order,
\* all of the slice when amount exceeds its length
choose_multiple(shuffled, amount) == SubSeq(shuffled, 1, Min(amount, Len(shuffled)))

\* get_match_id
get_match_id(mode, now) == "mode." \o ModeDisplay(mode) \o "-" \o now

\* the address the client reports shown as the network address
NewPlayer_ReportedAddress(ticket, address, is_local_player, port) ==
    [uid |-> ticket.user.uid,
     display_name |-> ticket.user.display_name,
     connect_code |-> ticket.user.connect_code,
     ip_address |-> ticket.ip_address_lan,
     ip_address_lan |-> ticket.ip_address_lan,
     is_local_player |-> is_local_player,
     port |-> port]

\* every entry marked as the local player
NewPlayer_AlwaysLocal(ticket, address, is_local_player, port) ==
    [uid |-> ticket.user.uid,
     display_name |-> ticket.user.display_name,
     connect_code |-> ticket.user.connect_code,
     ip_address |-> address.ip \o ":" \o ToString(address.port),
     ip_address_lan |-> ticket.ip_address_lan,
     is_local_player |-> TRUE,
     port |-> port]

\* the LAN address shown as the address of the local player
NewPlayer_LanForLocal(ticket, address, is_local_player, port) ==
    [uid |-> ticket.user.uid,
     display_name |-> ticket.user.display_name,
     connect_code |-> ticket.user.connect_code,
     ip_address |-> IF is_local_player THEN ticket.ip_address_lan
                    ELSE address.ip \o ":" \o ToString(address.port),
     ip_address_lan |-> ticket.ip_address_lan,
     is_local_player |-> is_local_player,
     port |-> port]

\* Player::new
NewPlayer(ticket, address, is_local_player, port) ==
    [uid |-> ticket.user.uid,
     display_name |-> ticket.user.display_name,
     connect_code |-> ticket.user.connect_code,
     ip_address |-> address.ip \o ":" \o ToString(address.port),
     ip_address_lan |-> ticket.ip_address_lan,
     is_local_player |-> is_local_player,
     port |-> port]

\* the port compared with host_port in the message of index i
HostCandidatePort(ports, randomized_ports, i) == ports[i]

\* no unwrap or expect has panicked
NoPanic == "none"

\* the local-player flag set on the entry after the recipient's own
create_game_LocalShifted(_players, mode, rng) ==
    LET n == Len(_players)
        match_id == get_match_id(mode, rng.now)
        stages == get_allowed_stages(mode)
        ports == get_ports(mode)
        randomized_ports == choose_multiple(rng.shuffle, n)
        host_port == rng.host
    IN  IF \E i \in 1..n : i > Len(ports) \/ i > Len(randomized_ports)
        THEN [panic |-> "ports.get", messages |-> <<>>]
        ELSE [panic |-> NoPanic,
              messages |->
                [i \in 1..n |->
                   [type |-> "get-ticket-resp",
                    latest_version |-> LatestVersion,
                    match_id |-> match_id,
                    is_host |-> HostCandidatePort(ports, randomized_ports, i) = host_port,
                    is_assigned |-> TRUE,
                    players |->
                      [j \in 1..n |->
                         NewPlayer(_players[j][1], _players[j][2], (i % n) + 1 = j,
                                   randomized_ports[j])],
                    stages |-> stages]]]

\* create_game: _players is a sequence of <<ticket, address>>.  The result
\* names the panic when one of the .get(..).unwrap() calls meets None.
create_game(_players, mode, rng) ==
    LET n == Len(_players)
        match_id == get_match_id(mode, rng.now)
        stages == get_allowed_stages(mode)
        ports == get_ports(mode)
        randomized_ports == choose_multiple(rng.shuffle, n)
        host_port == rng.host
    IN  IF \E i \in 1..n : i > Len(ports) \/ i > Len(randomized_ports)
        THEN [panic |-> "ports.get", messages |-> <<>>]
        ELSE [panic |-> NoPanic,
              messages |->
                [i \in 1..n |->
                   [type |-> "get-ticket-resp",
                    latest_version |-> LatestVersion,
                    match_id |-> match_id,
                    is_host |-> HostCandidatePort(ports, randomized_ports, i) = host_port,
                    is_assigned |-> TRUE,
                    players |->
                      [j \in 1..n |->
                         NewPlayer(_players[j][1], _players[j][2], i = j,
                                   randomized_ports[j])],
                    stages |-> stages]]]

(***************************************************************************)
(* Wire codec of the outbound messages.                                    *)
(***************************************************************************)
\* enum ControllerPort, by its serde_repr number
ControllerPortId(port) ==
    CASE port = "One" -> 1
      [] port = "Two" -> 2
      [] port = "Three" -> 3
      [] port = "Four" -> 4

ControllerPorts == {"One", "Two", "Three", "Four"}

Stages ==
    {"FountainOfDreams", "PokemonStadium", "YoshisStory", "DreamLand",
     "Battlefield", "FinalDestination"}

\* a JSON boolean
JBool(b) == [json |-> "bool", value |-> b]

\* Deserialize for bool: a JSON boolean
IsBool(j) == j.json = "bool"

\* the port written as its index from zero
PlayerJson_ZeroBasedPort(player) ==
    JObject([isLocalPlayer |-> JBool(player.is_local_player),
             ipAddress |-> JString(player.ip_address),
             ipAddressLan |-> JString(player.ip_address_lan),
             port |-> JNumber(ControllerPortId(player.port) - 1),
             uid |-> JString(player.uid),
             displayName |-> JString(player.display_name),
             connectCode |-> JString(player.connect_code)])

\* Serialize for Player: the JSON object, keys in camelCase, the port as
\* its number
PlayerJson(player) ==
    JObject([isLocalPlayer |-> JBool(player.is_local_player),
             ipAddress |-> JString(player.ip_address),
             ipAddressLan |-> JString(player.ip_address_lan),
             port |-> JNumber(ControllerPortId(player.port)),
             uid |-> JString(player.uid),
             displayName |-> JString(player.display_name),
             connectCode |-> JString(player.connect_code)])

\* serde_json::to_string(&message): the JSON object of a MatchmakingMessage,
\* tagged by "type", keys in camelCase, the stages as their numbers
to_json(message) ==
    IF message.type = "create-ticket-resp"
    THEN JObject([type |-> JString("create-ticket-resp")])
    ELSE JObject(
           [type |-> JString("get-ticket-resp"),
            latestVersion |-> JString(message.latest_version),
            matchId |-> JString(message.match_id),
            isHost |-> JBool(message.is_host),
            isAssigned |-> JBool(message.is_assigned),
            players |-> JArray([j \in DOMAIN message.players |->
                                  PlayerJson(message.players[j])]),
            stages |-> JArray([k \in DOMAIN message.stages |->
                                 JNumber(StageId(message.stages[k]))])])

\* Deserialize_repr for ControllerPort: the number of a variant
IsPort(j) ==
    /\ j.json = "number"
    /\ \E c \in ControllerPorts : ControllerPortId(c) = j.value

\* Deserialize_repr for Stage: the number of a variant
IsStage(j) ==
    /\ j.json = "number"
    /\ \E st \in Stages : StageId(st) = j.value

\* Deserialize for Player: an object or an array of the fields in order;
\* every field is required, isLocalPlayer is a boolean, port the number of
\* a ControllerPort and the other fields are strings
PlayerFromJson(j) ==
    CHOOSE player \in
        {IF ~read.ok THEN [ok |-> FALSE]
         ELSE IF ~({"isLocalPlayer", "ipAddress", "ipAddressLan", "port", "uid",
                    "displayName", "connectCode"} \subseteq DOMAIN read.fields)
         THEN [ok |-> FALSE]
         ELSE IF \/ ~IsBool(read.fields["isLocalPlayer"])
                 \/ ~IsString(read.fields["ipAddress"])
                 \/ ~IsString(read.fields["ipAddressLan"])
                 \/ ~IsPort(read.fields["port"])
                 \/ ~IsString(read.fields["uid"])
                 \/ ~IsString(read.fields["displayName"])
                 \/ ~IsString(read.fields["connectCode"])
         THEN [ok |-> FALSE]
         ELSE [ok |-> TRUE,
               player |->
                 [uid |-> read.fields["uid"].value,
                  display_name |-> read.fields["displayName"].value,
                  connect_code |-> read.fields["connectCode"].value,
                  ip_address |-> read.fields["ipAddress"].value,
                  ip_address_lan |-> read.fields["ipAddressLan"].value,
                  is_local_player |-> read.fields["isLocalPlayer"].value,
                  port |-> CHOOSE c \in ControllerPorts :
                              ControllerPortId(c) = read.fields["port"].value]] :
           read \in {StructFields(j, <<"isLocalPlayer", "ipAddress", "ipAddressLan",
                                       "port", "uid", "displayName",
                                       "connectCode">>)}} : TRUE

\* the tag of an internally tagged enum: the value of the key "type" of an
\* object and the first element of an array; [json |-> "null"] when the
\* value has none
MessageTag(j) ==
    IF j.json = "object" /\ "type" \in DOMAIN j.value THEN j.value["type"]
    ELSE IF j.json = "array" /\ Len(j.value) >= 1 THEN j.value[1]
    ELSE [json |-> "null"]

\* what is left for the fields of the variant: the object (its key "type"
\* names no field) and the array after its first element
MessageContent(j) == IF j.json = "array" THEN JArray(Tail(j.value)) ELSE j

\* the fields of GetTicketResponse, given what StructFields read: every
\* field is required, latestVersion and matchId are strings, isHost and
\* isAssigned booleans, players an array of Player and stages an array of
\* numbers of a Stage
GetTicketResponseOfFields(read) ==
    IF ~read.ok THEN [ok |-> FALSE]
    ELSE IF ~({"latestVersion", "matchId", "isHost", "isAssigned", "players",
               "stages"} \subseteq DOMAIN read.fields)
    THEN [ok |-> FALSE]
    ELSE IF \/ ~IsString(read.fields["latestVersion"])
            \/ ~IsString(read.fields["matchId"])
            \/ ~IsBool(read.fields["isHost"])
            \/ ~IsBool(read.fields["isAssigned"])
            \/ read.fields["players"].json # "array"
            \/ read.fields["stages"].json # "array"
    THEN [ok |-> FALSE]
    ELSE IF \/ \E k \in DOMAIN read.fields["players"].value :
                  ~PlayerFromJson(read.fields["players"].value[k]).ok
            \/ \E k \in DOMAIN read.fields["stages"].value :
                  ~IsStage(read.fields["stages"].value[k])
    THEN [ok |-> FALSE]
    ELSE [ok |-> TRUE,
          message |->
            [type |-> "get-ticket-resp",
             latest_version |-> read.fields["latestVersion"].value,
             match_id |-> read.fields["matchId"].value,
             is_host |-> read.fields["isHost"].value,
             is_assigned |-> read.fields["isAssigned"].value,
             players |->
               [k \in DOMAIN read.fields["players"].value |->
                  PlayerFromJson(read.fields["players"].value[k]).player],
             stages |->
               [k \in DOMAIN read.fields["stages"].value |->
                  CHOOSE st \in Stages :
                     StageId(st) = read.fields["stages"].value[k].value]]]

\* serde_json::from_str::<MatchmakingMessage>: the value is an object with
\* the key "type" or an array that begins with the tag; the tag is the
\* name of a variant, and the rest is read as the fields of that variant
from_json(j) ==
    CHOOSE message \in
        {IF ~IsString(tag) THEN [ok |-> FALSE]
         ELSE IF tag.value = "create-ticket-resp"
         THEN IF StructFields(MessageContent(j), <<>>).ok
              THEN [ok |-> TRUE, message |-> [type |-> "create-ticket-resp"]]
              ELSE [ok |-> FALSE]
         ELSE IF tag.value = "get-ticket-resp"
         THEN GetTicketResponseOfFields(
                  StructFields(MessageContent(j),
                               <<"latestVersion", "matchId", "isHost", "isAssigned",
                                 "players", "stages">>))
         ELSE [ok |-> FALSE] :
           tag \in {MessageTag(j)}} : TRUE

(***************************************************************************)
(* The grouping pass.                                                      *)
(***************************************************************************)
\* every two neighbours of equal key as a run of their own: windows that
\* overlap instead of a partition
GroupBy_Pairs(elems, keys) ==
    LET starts(i) == i < Len(elems) /\ keys[i] = keys[i + 1]
        idx == SelectSeq([i \in DOMAIN elems |-> i], starts)
    IN  [k \in DOMAIN idx |->
           [key |-> keys[idx[k]], items |-> <<elems[idx[k]], elems[idx[k] + 1]>>]]

\* itertools group_by: the consecutive runs of equal keys, in order
RECURSIVE GroupBy(_, _)
GroupBy(elems, keys) ==
    IF elems = <<>> THEN <<>>
    ELSE LET rest == GroupBy(Tail(elems), Tail(keys)) IN
         IF rest # <<>> /\ rest[1].key = keys[1]
         THEN <<[key |-> keys[1], items |-> <<elems[1]>> \o rest[1].items]>>
              \o Tail(rest)
         ELSE <<[key |-> keys[1], items |-> <<elems[1]>>]>> \o rest

\* the key made of the target connect code alone
DirectKey_TargetOnly(ticket) == {ticket.search.connect_code}

\* the grouping key of a Direct ticket: the HashSet of the own and the
\* target connect code
DirectKey(ticket) == {ticket.user.connect_code, ticket.search.connect_code}

\* search.connect_code.clone().unwrap() meets None for some peer
KeyPanics(peers, dat) ==
    \E i \in DOMAIN peers : dat[peers[i]].search.connect_code = None

\* the threshold off by one: peer_vec.len() > 0
IsReadyGroup_AnySize(peer_vec) == Len(peer_vec) > 0

\* peer_vec.len() > 1
IsReadyGroup(peer_vec) == Len(peer_vec) > 1

\* the mode that has a grouping rule
ModeIsGrouped(mode) == mode = "Direct"

\* matched_peers of handle_matchmaking, when no key panics
MatchedPeers(mode, peers, dat) ==
    IF ~ModeIsGrouped(mode) \/ KeyPanics(peers, dat) THEN <<>>
    ELSE LET runs == GroupBy(peers, [i \in DOMAIN peers |-> DirectKey(dat[peers[i]])])
             ready(r) == IsReadyGroup(r.items)
             kept == SelectSeq(runs, ready)
         IN  [k \in DOMAIN kept |-> kept[k].items]

\* Peer::send_packet(..).unwrap() for each message in turn: the packets
\* handed to the transport, up to the first send that fails
SendAll(sends, failing) ==
    LET bad == {i \in DOMAIN sends : sends[i].to \in failing} IN
    IF bad = {} THEN [out |-> sends, panic |-> NoPanic]
    ELSE LET first == CHOOSE i \in bad : \A j \in bad : i <= j
         IN  [out |-> SubSeq(sends, 1, first - 1), panic |-> "send_packet"]

\* the body of matched_peers.iter().for_each for the groups from index k on
RECURSIVE SendGroups(_, _, _, _, _, _, _)
SendGroups(matched, k, mode, dat, rngs, base, failing) ==
    IF k > Len(matched) THEN [out |-> <<>>, panic |-> NoPanic]
    ELSE LET _peers == matched[k]
             game == create_game(
                        [i \in DOMAIN _peers |->
                           <<dat[_peers[i]], PeerAddress(_peers[i])>>],
                        mode, rngs[base + k])
         IN  IF game.panic # NoPanic THEN [out |-> <<>>, panic |-> game.panic]
             ELSE LET zipped == [i \in 1..Min(Len(_peers), Len(game.messages)) |->
                                   [to |-> _peers[i], msg |-> game.messages[i]]]
                      sent == SendAll(zipped, failing)
                  IN  IF sent.panic # NoPanic THEN sent
                      ELSE LET rest == SendGroups(matched, k + 1, mode, dat, rngs,
                                                  base, failing)
                           IN  [out |-> sent.out \o rest.out, panic |-> rest.panic]

\* handle_matchmaking(mode, peers); rngs[base + k] is the randomness of the
\* k-th call of create_game
handle_matchmaking(mode, peers, dat, rngs, base, failing) ==
    IF ModeIsGrouped(mode) /\ KeyPanics(peers, dat)
    THEN [out |-> <<>>, panic |-> "connect_code", matched |-> <<>>]
    ELSE LET matched_peers == MatchedPeers(mode, peers, dat)
             r == SendGroups(matched_peers, 1, mode, dat, rngs, base, failing)
         IN  [out |-> r.out, panic |-> r.panic, matched |-> matched_peers]

\* the filter on peer.state() left out
ConnectedPeers_AnyState(st, dat) ==
    LET keep(p) == dat[p] # NoTicket
    IN  SelectSeq([p \in Peers |-> p], keep)

\* host.peers() filtered to the connected peers that carry data
ConnectedPeers(st, dat) ==
    LET keep(p) == st[p] = "Connected" /\ dat[p] # NoTicket
    IN  SelectSeq([p \in DOMAIN st |-> p], keep)

\* connected_peers.group_by(|peer| peer.data().unwrap().search.mode)
PeersByGameMode(st, dat) ==
    LET connected_peers == ConnectedPeers(st, dat)
    IN  GroupBy(connected_peers,
                [i \in DOMAIN connected_peers |-> dat[connected_peers[i]].search.mode])

\* peers_by_game_mode.into_iter().for_each(handle_matchmaking), from run k on
RECURSIVE ForEachMode(_, _, _, _, _, _)
ForEachMode(runs, k, dat, rngs, base, failing) ==
    IF k > Len(runs) THEN [out |-> <<>>, panic |-> NoPanic, matched |-> <<>>]
    ELSE LET r == handle_matchmaking(runs[k].key, runs[k].items, dat, rngs, base,
                                     failing)
         IN  IF r.panic # NoPanic THEN r
             ELSE LET rest == ForEachMode(runs, k + 1, dat, rngs,
                                          base + Len(r.matched), failing)
                  IN  [out |-> r.out \o rest.out,
                       panic |-> rest.panic,
                       matched |-> r.matched \o rest.matched]

\* the number of create_game calls one pass over the registry can make
RECURSIVE ReadyGroupCount(_, _, _)
ReadyGroupCount(runs, k, dat) ==
    IF k > Len(runs) THEN 0
    ELSE Len(MatchedPeers(runs[k].key, runs[k].items, dat))
         + ReadyGroupCount(runs, k + 1, dat)

(***************************************************************************)
(* The account model (src/src/models.rs).  A string is the sequence of its *)
(* characters; a character outside ASCII is written by its code point.     *)
(***************************************************************************)
CONNECT_CODE_SEPARATOR == "#"

CONNECT_CODE_MAX_LENGTH == 8

NAME_ENTRY_SELECTABLE_PUNCTUATION ==
    {"+", "-", "=", "!", "?", "@", "%", "&", "#", "$", ".", " ",
     "U+FF61", "U+FF64"}

OTHER_DISPLAYABLE_PUNCTUATION == {"/"}

LowerLetters ==
    <<"a", "b", "c", "d", "e", "f", "g", "h", "i", "j", "k", "l", "m",
      "n", "o", "p", "q", "r", "s", "t", "u", "v", "w", "x", "y", "z">>

AsciiDigits == {"0", "1", "2", "3", "4", "5", "6", "7", "8", "9"}

\* wana_kana is_char_hiragana, on the characters the model uses: U+3084
is_char_hiragana(c) == c \in {"U+3084"}

\* wana_kana is_char_katakana, on the characters the model uses: U+30EA
is_char_katakana(c) == c \in {"U+30EA"}

\* char::is_numeric, on the characters the model uses: the ASCII digits and
\* the fraction U+00BD
is_numeric(c) == c \in AsciiDigits \cup {"U+00BD"}

\* char::is_ascii_uppercase
is_ascii_uppercase(c) == c \in Range(Letters)

\* char::is_ascii_alphanumeric
is_ascii_alphanumeric(c) ==
    c \in Range(Letters) \cup Range(LowerLetters) \cup AsciiDigits

\* Result::Ok(()) of a validation function
Ok == "ok"

\* is_selectable_in_name_entry
is_selectable_in_name_entry(s) ==
    IF \A i \in DOMAIN s :
          \/ is_char_hiragana(s[i])
          \/ is_char_katakana(s[i])
          \/ is_numeric(s[i])
          \/ is_ascii_uppercase(s[i])
          \/ s[i] \in NAME_ENTRY_SELECTABLE_PUNCTUATION
    THEN Ok
    ELSE "not_selectable_in_name_entry"

\* is_displayable_in_game
is_displayable_in_game(s) ==
    IF \/ is_selectable_in_name_entry(s) = Ok
       \/ \A i \in DOMAIN s :
             \/ is_ascii_alphanumeric(s[i])
             \/ s[i] \in NAME_ENTRY_SELECTABLE_PUNCTUATION
             \/ s[i] \in OTHER_DISPLAYABLE_PUNCTUATION
    THEN Ok
    ELSE "not_displayable_in_game"

\* str::contains(CONNECT_CODE_SEPARATOR)
ContainsSeparator(s) == \E i \in DOMAIN s : s[i] = CONNECT_CODE_SEPARATOR

\* str::split_once(CONNECT_CODE_SEPARATOR) of a string that has a separator:
\* the parts before and after the first one
split_once(s) ==
    LET k == CHOOSE i \in DOMAIN s :
                 /\ s[i] = CONNECT_CODE_SEPARATOR
                 /\ \A j \in DOMAIN s : s[j] = CONNECT_CODE_SEPARATOR => i <= j
    IN  <<SubSeq(s, 1, k - 1), SubSeq(s, k + 1, Len(s))>>

\* connect_code_contains_separator
connect_code_contains_separator(s) ==
    IF ~ContainsSeparator(s) THEN "separator_missing" ELSE Ok

\* connect_code_prefix_is_not_empty
connect_code_prefix_is_not_empty(s) ==
    IF ContainsSeparator(s) /\ split_once(s)[1] = <<>> THEN "prefix_length"
    ELSE Ok

\* lower-case letters let through
connect_code_prefix_contains_only_valid_characters_Displayable(s) ==
    IF /\ ContainsSeparator(s)
       /\ LET prefix == split_once(s)[1] IN
          \/ is_displayable_in_game(prefix) # Ok
          \/ \E i \in DOMAIN prefix :
                prefix[i] \in NAME_ENTRY_SELECTABLE_PUNCTUATION
    THEN "prefix_invalid_characters"
    ELSE Ok

\* connect_code_prefix_contains_only_valid_characters
connect_code_prefix_contains_only_valid_characters(s) ==
    IF /\ ContainsSeparator(s)
       /\ LET prefix == split_once(s)[1] IN
          \/ is_selectable_in_name_entry(prefix) # Ok
          \/ \E i \in DOMAIN prefix :
                prefix[i] \in NAME_ENTRY_SELECTABLE_PUNCTUATION
    THEN "prefix_invalid_characters"
    ELSE Ok

\* connect_code_discriminant_is_not_empty
connect_code_discriminant_is_not_empty(s) ==
    IF ContainsSeparator(s) /\ split_once(s)[2] = <<>> THEN "discriminant_length"
    ELSE Ok

\* connect_code_discriminant_contains_only_numeric_characters
connect_code_discriminant_contains_only_numeric_characters(s) ==
    IF /\ ContainsSeparator(s)
       /\ LET discriminant == split_once(s)[2] IN
          ~\A i \in DOMAIN discriminant : is_numeric(discriminant[i])
    THEN "discriminant_invalid_characters"
    ELSE Ok

\* User::is_valid_connect_code
is_valid_connect_code(connect_code) ==
    /\ connect_code_contains_separator(connect_code) = Ok
    /\ connect_code_prefix_is_not_empty(connect_code) = Ok
    /\ connect_code_prefix_contains_only_valid_characters(connect_code) = Ok
    /\ connect_code_discriminant_is_not_empty(connect_code) = Ok
    /\ connect_code_discriminant_contains_only_numeric_characters(connect_code) = Ok

\* the fields a ValidationErrors can name
Fields == {"username", "password", "display_name", "connect_code", "database"}

\* ValidationErrors::new(): no field has an error
NoErrors == [f \in Fields |-> <<>>]

\* ValidationErrors::add
AddError(errors, field, code) == [errors EXCEPT ![field] = Append(@, code)]

\* the error codes of the results that are not Ok, in order
Failed(results) == SelectSeq(results, LAMBDA r : r # Ok)

\* the length validator of the derive: the number of characters within
\* min..max
validate_length(s, min, max) ==
    IF Len(s) < min \/ Len(s) > max THEN "length" ELSE Ok

\* the upper limit of the length validator left out
ConnectCodeErrors_NoMax(connect_code) ==
    Failed(<<validate_length(connect_code, 1, Len(connect_code)),
             connect_code_contains_separator(connect_code),
             connect_code_prefix_is_not_empty(connect_code),
             connect_code_prefix_contains_only_valid_characters(connect_code),
             connect_code_discriminant_is_not_empty(connect_code),
             connect_code_discriminant_contains_only_numeric_characters(connect_code)>>)

\* #[validate(..)] of User.connect_code: the validators in their order
ConnectCodeErrors(connect_code) ==
    Failed(<<validate_length(connect_code, 1, CONNECT_CODE_MAX_LENGTH),
             connect_code_contains_separator(connect_code),
             connect_code_prefix_is_not_empty(connect_code),
             connect_code_prefix_contains_only_valid_characters(connect_code),
             connect_code_discriminant_is_not_empty(connect_code),
             connect_code_discriminant_contains_only_numeric_characters(connect_code)>>)

\* #[validate(..)] of User.display_name; no upper limit on the length
DisplayNameErrors(display_name) ==
    Failed(<<validate_length(display_name, 1, Len(display_name) + 1),
             is_displayable_in_game(display_name)>>)

\* Validate::validate of User
validate(user) ==
    [NoErrors EXCEPT !["display_name"] = DisplayNameErrors(user.display_name),
                     !["connect_code"] = ConnectCodeErrors(user.connect_code)]

\* User::new; uid and play_key are the identifiers Uuid::new() and
\* ObjectId::new() generate
User_new(display_name, connect_code, uid, play_key) ==
    LET user == [uid |-> uid,
                 play_key |-> play_key,
                 display_name |-> display_name,
                 connect_code |-> connect_code,
                 latest_version |-> None]
        errors == validate(user)
    IN  IF errors = NoErrors THEN [ok |-> TRUE, user |-> user]
        ELSE [ok |-> FALSE, errors |-> errors]

(***************************************************************************)
(* Payloads the clients send.                                              *)
(***************************************************************************)
\* connect codes of the clients
ConnectCodes == {"A#1", "B#2"}

\* a connect code as the client puts it on the wire: full-width characters
\* in Shift-JIS
WireCode(code) ==
    JArray(IF code = "A#1"
           THEN <<JNumber(130), JNumber(96), JNumber(129), JNumber(148),
                  JNumber(130), JNumber(80)>>
           ELSE <<JNumber(130), JNumber(97), JNumber(129), JNumber(148),
                  JNumber(130), JNumber(81)>>)

\* the connect code as a client may also put it on the wire: in UTF-8
\* after the byte order mark
WireCodeUtf8(code) ==
    JArray(<<JNumber(239), JNumber(187), JNumber(191)>>
           \o (IF code = "A#1" THEN <<JNumber(65), JNumber(35), JNumber(49)>>
               ELSE <<JNumber(66), JNumber(35), JNumber(50)>>))

\* the user object the client of slot p sends with own connect code cc
UserJson(p, cc) ==
    JObject([uid |-> JString("uid-" \o ToString(p)),
             playKey |-> JString("key-" \o ToString(p)),
             displayName |-> JString("player-" \o ToString(p)),
             connectCode |-> JString(cc)])

\* a create-ticket object with a target connect code
TicketJson(p, cc, target, mode) ==
    JObject([type |-> JString("create-ticket"),
             appVersion |-> JString(LatestVersion),
             ipAddressLan |-> JString("192.168.0." \o ToString(p) \o ":50285"),
             search |-> JObject([connectCode |-> WireCode(target),
                                 mode |-> JNumber(mode)]),
             user |-> UserJson(p, cc)])

\* the create-ticket message as the array of its fields in order, search
\* as an array too and its connect code in UTF-8
TicketJsonArray(p, cc, target, mode) ==
    JArray(<<JString(LatestVersion),
             JString("192.168.0." \o ToString(p) \o ":50285"),
             JArray(<<WireCodeUtf8(target), JNumber(mode)>>),
             UserJson(p, cc)>>)

\* a create-ticket object whose search has no connectCode
TicketJsonNoTarget(p, cc, mode) ==
    JObject([type |-> JString("create-ticket"),
             appVersion |-> JString(LatestVersion),
             ipAddressLan |-> JString("192.168.0." \o ToString(p) \o ":50285"),
             search |-> JObject([mode |-> JNumber(mode)]),
             user |-> UserJson(p, cc)])

\* the mode without a grouping rule that the client of slot p asks for:
\* Ranked, Unranked and Teams in turn over the slots
OtherModeOf(p) == <<0, 1, 3>>[((p - 1) % 3) + 1]

\* The packets the client of slot p may send: Direct tickets with a target,
\* as an object and one as an array, tickets without a target for its
\* other mode, for Direct and for the unknown mode 4, a ticket without
\* ipAddressLan, and two payloads that are not JSON.
Payloads(p) ==
    {[kind |-> "json", value |-> TicketJson(p, ct[1], ct[2], 2)] :
        ct \in {<<"A#1", "B#2">>, <<"B#2", "A#1">>, <<"A#1", "A#1">>}}
    \cup {[kind |-> "json", value |-> TicketJsonArray(p, "B#2", "A#1", 2)]}
    \cup {[kind |-> "json", value |-> TicketJsonNoTarget(p, "A#1", m)] :
            m \in {OtherModeOf(p), 2, 4}}
    \cup {[kind |-> "json",
           value |-> JObject([type |-> JString("create-ticket"),
                              appVersion |-> JString(LatestVersion),
                              search |-> JObject([mode |-> JNumber(2)]),
                              user |-> UserJson(p, "A#1")])]}
    \cup {[kind |-> "not_json"], [kind |-> "not_utf8"]}

\* the packets of every client, by slot
ClientPackets == [p \in Peers |-> Payloads(p)]

(***************************************************************************)
(* State.                                                                  *)
(***************************************************************************)
VARIABLES
    state,       \* Peer::state() of every peer slot
    data,        \* Peer::data() of every peer slot: a ticket or NoTicket
    panic,       \* the unwrap that has panicked and ended the loop, or NoPanic
    outbox,      \* the packets handed to send_packet in the last iteration
    groups,      \* matched_peers of the last iteration, over all modes
    lastEvent,   \* the event host.service returned in the last iteration:
                 \* its type, the sender and whether the packet decoded
                 \* when it is a Receive (0 for no sender), whether
                 \* the sender already held a ticket, and the peers to
                 \* which a send_packet of the iteration failed
    lastTicket,  \* history: the last ticket decoded from each connected peer
    game,        \* a call of create_game on its own: arguments and result
    users,       \* the rows of the table users
    reply,       \* the last call of a function of the account model:
                 \* its arguments and its result
    acked,       \* history: whether a create-ticket-resp was handed to
                 \* send_packet for the ticket a peer slot holds
    calls        \* the calls of check_constraints_and_create in progress:
                 \* where each is, its arguments and what it has got so far

vars ==
    <<state, data, panic, outbox, groups, lastEvent, lastTicket, game, users,
      reply, acked, calls>>

\* no call of create_game outside the loop
NoGame == [phase |-> "none"]

\* no call of the account model
NoReply == [op |-> "none"]

\* the requests the web server handles at a time, each in its own task
MaxCalls == 2

Calls == 1..MaxCalls

\* no call of check_constraints_and_create in the task
NoCall == [pc |-> "idle"]

Init ==
    /\ state = [p \in Peers |-> "Disconnected"]
    /\ data = [p \in Peers |-> NoTicket]
    /\ panic = NoPanic
    /\ outbox = <<>>
    /\ groups = <<>>
    /\ lastEvent = [type |-> "None", peer |-> 0, decoded |-> FALSE,
                    replaced |-> FALSE, failing |-> {}]
    /\ lastTicket = [p \in Peers |-> NoTicket]
    /\ acked = [p \in Peers |-> FALSE]
    /\ game = NoGame
    /\ users = {}
    /\ calls = [c \in Calls |-> NoCall]
    /\ reply = NoReply

(***************************************************************************)
(* The event handler.                                                      *)
(***************************************************************************)
\* What host.service has done to the peers' states when it returns the
\* event (Ok).  A call that returns Err is the action ServiceFails.  A call that returns no event may have processed the disconnect
\* of the peers in event.zombies and queued their Disconnect events for
\* later calls: those peers are zombies, their data still set.
Service(event, st) ==
    CASE event.type = "Connect" -> [st EXCEPT ![event.peer] = "Connected"]
      [] event.type = "Disconnect" -> [st EXCEPT ![event.peer] = "Disconnected"]
      [] event.type = "None" ->
            [p \in DOMAIN st |-> IF p \in event.zombies THEN "Zombie" ELSE st[p]]
      [] OTHER -> st

\* the ticket stored on every peer slot
set_data_AllPeers(dat, sender, message) == [p \in DOMAIN dat |-> message]

\* the data set only when the peer has none yet
set_data_KeepFirst(dat, sender, message) ==
    IF dat[sender] # NoTicket THEN dat ELSE [dat EXCEPT ![sender] = message]

\* sender.set_data(Some(message.clone()))
set_data(dat, sender, message) == [dat EXCEPT ![sender] = message]

\* the match arms swapped: the acknowledgement goes to the other modes
ReceiveReplies_ArmsSwapped(sender, message) ==
    IF message.search.mode # "Direct"
    THEN <<[to |-> sender, msg |-> [type |-> "create-ticket-resp"]]>>
    ELSE <<>>

\* the packets the Receive arm sends for a decoded ticket
ReceiveReplies(sender, message) ==
    IF message.search.mode = "Direct"
    THEN <<[to |-> sender, msg |-> [type |-> "create-ticket-resp"]]>>
    ELSE <<>>

\* disconnect_later(0) left out: the peer stays connected
ReceiveState_NoDisconnect(st, sender, message) == st

\* the peer state the Receive arm leaves the sender in: disconnect_later(0)
\* for every mode but Direct
ReceiveState(st, sender, message) ==
    IF message.search.mode = "Direct" THEN st
    ELSE [st EXCEPT ![sender] = "Disconnecting"]

\* the Receive arm of handle_enet_event
OnReceive(sender, packet, st, dat, failing) ==
    CHOOSE handled \in
        {IF ~decoded.ok
         THEN [state |-> st, data |-> dat, out |-> <<>>, panic |-> decoded.err]
         ELSE LET message == decoded.ticket
                  sent == SendAll(ReceiveReplies(sender, message), failing)
              IN  [state |-> IF sent.panic # NoPanic THEN st
                             ELSE ReceiveState(st, sender, message),
                   data |-> set_data(dat, sender, message),
                   out |-> sent.out,
                   panic |-> sent.panic] :
           decoded \in {DecodeTicket(packet)}} : TRUE

\* handle_enet_event; dropping a Disconnect event frees the peer's data
handle_enet_event(event, st, dat, failing) ==
    CASE event.type = "Connect" ->
            [state |-> st, data |-> dat, out |-> <<>>, panic |-> NoPanic]
      [] event.type = "Disconnect" ->
            [state |-> st, data |-> [dat EXCEPT ![event.peer] = NoTicket],
             out |-> <<>>, panic |-> NoPanic]
      [] event.type = "Receive" ->
            OnReceive(event.sender, event.packet, st, dat, failing)
      [] OTHER ->
            [state |-> st, data |-> dat, out |-> <<>>, panic |-> NoPanic]

(***************************************************************************)
(* One iteration of the loop of start_server.                              *)
(***************************************************************************)
\* the peer an event is about, 0 for none
EventPeer(event) ==
    CASE event.type = "Receive" -> event.sender
      [] event.type \in {"Connect", "Disconnect"} -> event.peer
      [] OTHER -> 0

IsGtr(m) == m.msg.type = "get-ticket-resp"

IsAck(m) == m.msg.type = "create-ticket-resp"

\* number of get-ticket-resp packets to p in a sequence of sends
GtrTo(out, p) == Cardinality({i \in DOMAIN out : out[i].to = p /\ IsGtr(out[i])})

\* acked after the event handler: a decoded ticket of the sender replaces
\* the one it held and is acknowledged when the handler has handed its
\* create-ticket-resp to send_packet; the slot of a Connect or Disconnect
\* event holds no acknowledged ticket
AckedAfter(event, received, h) ==
    [p \in DOMAIN acked |->
       IF p # EventPeer(event) THEN acked[p]
       ELSE IF event.type # "Receive" THEN FALSE
       ELSE IF received.ok
            THEN \E i \in DOMAIN h.out : h.out[i].to = p /\ IsAck(h.out[i])
       ELSE acked[p]]

\* the grouping pass run on the registry as it was before the event
Iteration_PassBeforeEvent(event, failing) ==
    /\ panic = NoPanic
    /\ \E received \in {IF event.type = "Receive" THEN DecodeTicket(event.packet)
                         ELSE [ok |-> FALSE, err |-> NoPanic]} :
       \E h \in {handle_enet_event(event, Service(event, state), data, failing)} :
       \E runs \in {IF h.panic # NoPanic THEN <<>>
                    ELSE PeersByGameMode(state, data)} :
       \E rngs \in [1..ReadyGroupCount(runs, 1, data) -> DirectRngs] :
       \E m \in {ForEachMode(runs, 1, data, rngs, 0, failing)} :
       \E out \in {h.out \o m.out} :
          /\ state' = h.state
          /\ data' = h.data
          /\ panic' = (IF h.panic # NoPanic THEN h.panic ELSE m.panic)
          /\ outbox' = out
          /\ groups' = m.matched
          /\ lastEvent' =
               [type |-> event.type,
                peer |-> IF event.type = "Receive" THEN event.sender ELSE 0,
                decoded |-> received.ok,
                replaced |-> received.ok /\ data[EventPeer(event)] # NoTicket,
                failing |-> IF "send_packet" \in {h.panic, m.panic}
                            THEN failing ELSE {}]
          /\ lastTicket' =
               [p \in Peers |->
                  IF p # EventPeer(event) THEN lastTicket[p]
                  ELSE IF event.type # "Receive" THEN NoTicket
                  ELSE IF received.ok THEN received.ticket
                  ELSE lastTicket[p]]
          /\ acked' = AckedAfter(event, received, h)
          /\ UNCHANGED <<game, users, reply, calls>>

\* the packets of the pass handed to send_packet before those of the handler
Iteration_AckAfterPass(event, failing) ==
    /\ panic = NoPanic
    /\ \E received \in {IF event.type = "Receive" THEN DecodeTicket(event.packet)
                         ELSE [ok |-> FALSE, err |-> NoPanic]} :
       \E h \in {handle_enet_event(event, Service(event, state), data, failing)} :
       \E runs \in {IF h.panic # NoPanic THEN <<>>
                    ELSE PeersByGameMode(h.state, h.data)} :
       \E rngs \in [1..ReadyGroupCount(runs, 1, h.data) -> DirectRngs] :
       \E m \in {ForEachMode(runs, 1, h.data, rngs, 0, failing)} :
       \E out \in {m.out \o h.out} :
          /\ state' = h.state
          /\ data' = h.data
          /\ panic' = (IF h.panic # NoPanic THEN h.panic ELSE m.panic)
          /\ outbox' = out
          /\ groups' = m.matched
          /\ lastEvent' =
               [type |-> event.type,
                peer |-> IF event.type = "Receive" THEN event.sender ELSE 0,
                decoded |-> received.ok,
                replaced |-> received.ok /\ data[EventPeer(event)] # NoTicket,
                failing |-> IF "send_packet" \in {h.panic, m.panic}
                            THEN failing ELSE {}]
          /\ lastTicket' =
               [p \in Peers |->
                  IF p # EventPeer(event) THEN lastTicket[p]
                  ELSE IF event.type # "Receive" THEN NoTicket
                  ELSE IF received.ok THEN received.ticket
                  ELSE lastTicket[p]]
          /\ acked' = AckedAfter(event, received, h)
          /\ UNCHANGED <<game, users, reply, calls>>

\* the loop body for the event (or the timeout) that host.service returned
Iteration(event, failing) ==
    /\ panic = NoPanic
    /\ \E received \in {IF event.type = "Receive" THEN DecodeTicket(event.packet)
                         ELSE [ok |-> FALSE, err |-> NoPanic]} :
       \E h \in {handle_enet_event(event, Service(event, state), data, failing)} :
       \E runs \in {IF h.panic # NoPanic THEN <<>>
                    ELSE PeersByGameMode(h.state, h.data)} :
       \E rngs \in [1..ReadyGroupCount(runs, 1, h.data) -> DirectRngs] :
       \E m \in {ForEachMode(runs, 1, h.data, rngs, 0, failing)} :
       \E out \in {h.out \o m.out} :
          /\ state' = h.state
          /\ data' = h.data
          /\ panic' = (IF h.panic # NoPanic THEN h.panic ELSE m.panic)
          /\ outbox' = out
          /\ groups' = m.matched
          /\ lastEvent' =
               [type |-> event.type,
                peer |-> IF event.type = "Receive" THEN event.sender ELSE 0,
                decoded |-> received.ok,
                replaced |-> received.ok /\ data[EventPeer(event)] # NoTicket,
                failing |-> IF "send_packet" \in {h.panic, m.panic}
                            THEN failing ELSE {}]
          /\ lastTicket' =
               [p \in Peers |->
                  IF p # EventPeer(event) THEN lastTicket[p]
                  ELSE IF event.type # "Receive" THEN NoTicket
                  ELSE IF received.ok THEN received.ticket
                  ELSE lastTicket[p]]
          /\ acked' = AckedAfter(event, received, h)
          /\ UNCHANGED <<game, users, reply, calls>>

\* No Disconnect event is queued.  A queued Disconnect event is what the
\* next call of host.service returns.
NoEventQueued == \A q \in Peers : state[q] # "Zombie"

\* host.service(1000) timed out
IterTimeout ==
    /\ NoEventQueued
    /\ Iteration([type |-> "None", zombies |-> {}], {})

\* host.service returned no event for a connected peer with a ticket whose
\* disconnect it has processed
IterPeerLeaves ==
    \E p \in Peers :
        /\ NoEventQueued
        /\ state[p] = "Connected"
        /\ data[p] # NoTicket
        /\ Iteration([type |-> "None", zombies |-> {p}], {})

\* host.service returned Event::Connect for a free peer slot
IterConnect ==
    \E p \in Peers :
        /\ NoEventQueued
        /\ state[p] = "Disconnected"
        /\ Iteration([type |-> "Connect", peer |-> p], {})

\* host.service returned Event::Disconnect
IterDisconnect ==
    \E p \in Peers :
        /\ state[p] \in {"Connected", "Disconnecting", "Zombie"}
        /\ NoEventQueued \/ state[p] = "Zombie"
        /\ Iteration([type |-> "Disconnect", peer |-> p], {})

\* host.service returned Event::Receive from a connected peer
IterReceive ==
    \E p \in Peers :
        /\ NoEventQueued
        /\ state[p] = "Connected"
        /\ \E packet \in ClientPackets[p] :
              Iteration([type |-> "Receive", sender |-> p, packet |-> packet], {})

\* host.service(1000) returned Err: expect("ENet service failed") panics and
\* the loop ends before the event handler and the grouping pass; nothing is
\* handed to send_packet
ServiceFails ==
    /\ panic = NoPanic
    /\ panic' = "service"
    /\ outbox' = <<>>
    /\ groups' = <<>>
    /\ lastEvent' = [type |-> "Error", peer |-> 0, decoded |-> FALSE,
                     replaced |-> FALSE, failing |-> {}]
    /\ UNCHANGED <<state, data, lastTicket, acked, game, users, reply, calls>>

Next ==
    \/ IterTimeout
    \/ IterPeerLeaves
    \/ IterConnect
    \/ IterDisconnect
    \/ IterReceive
    \/ ServiceFails

Spec == Init /\ [][Next]_vars

(***************************************************************************)
(* The loop when send_packet may fail.                                     *)
(***************************************************************************)
\* the peers to which every send_packet of one iteration fails: none, or
\* one of the connected peers
FailingSets == {{}} \cup {{p} : p \in {q \in Peers : state[q] = "Connected"}}

FaultTimeout ==
    \E failing \in FailingSets :
        /\ NoEventQueued
        /\ Iteration([type |-> "None", zombies |-> {}], failing)

FaultPeerLeaves ==
    \E p \in Peers, failing \in FailingSets :
        /\ NoEventQueued
        /\ state[p] = "Connected"
        /\ data[p] # NoTicket
        /\ Iteration([type |-> "None", zombies |-> {p}], failing)

FaultConnect ==
    \E p \in Peers, failing \in FailingSets :
        /\ NoEventQueued
        /\ state[p] = "Disconnected"
        /\ Iteration([type |-> "Connect", peer |-> p], failing)

FaultDisconnect ==
    \E p \in Peers, failing \in FailingSets :
        /\ state[p] \in {"Connected", "Disconnecting", "Zombie"}
        /\ NoEventQueued \/ state[p] = "Zombie"
        /\ Iteration([type |-> "Disconnect", peer |-> p], failing)

FaultReceive ==
    \E p \in Peers, failing \in FailingSets :
        /\ NoEventQueued
        /\ state[p] = "Connected"
        /\ \E packet \in ClientPackets[p] :
              Iteration([type |-> "Receive", sender |-> p, packet |-> packet],
                        failing)

FaultNext ==
    \/ FaultTimeout
    \/ FaultPeerLeaves
    \/ FaultConnect
    \/ FaultDisconnect
    \/ FaultReceive
    \/ ServiceFails

FaultSpec == Init /\ [][FaultNext]_vars

(***************************************************************************)
(* The grouping pass on a registry of more peers.  The registries are      *)
(* those the loop reaches without a panic when the clients connect in slot *)
(* order and each sends one Direct ticket: a prefix of such a registry has *)
(* no longer run of equal keys than the registry itself.                   *)
(***************************************************************************)
\* the peer slots of the registry
NPassPeers == 4

PassPeers == 1..NPassPeers

\* what a slot of the registry holds: no peer, a peer without a ticket, or
\* a peer with a Direct ticket <<own connect code, target connect code>>
PassChoices ==
    {<<"free">>, <<"connected">>}
    \cup {<<"A#1", "B#2">>, <<"B#2", "A#1">>, <<"A#1", "A#1">>}

\* the ticket stored for the client of slot p that sent the ticket ct
PassTicket(p, ct) ==
    DecodeTicket([kind |-> "json", value |-> TicketJson(p, ct[1], ct[2], 2)]).ticket

\* no ready group of the registry is larger than the pool of ports: the
\* pass does not panic in create_game
PassDoesNotPanic(st, dat) ==
    LET runs == PeersByGameMode(st, dat) IN
    \A k \in DOMAIN runs :
        LET matched == MatchedPeers(runs[k].key, runs[k].items, dat) IN
        \A g \in DOMAIN matched : Len(matched[g]) <= Len(get_ports(runs[k].key))

PassInit ==
    /\ \E c \in [PassPeers -> PassChoices] :
          /\ state = [p \in PassPeers |->
                        IF c[p] = <<"free">> THEN "Disconnected" ELSE "Connected"]
          /\ data = [p \in PassPeers |->
                       IF Len(c[p]) = 1 THEN NoTicket
                       ELSE PassTicket(p, c[p])]
    /\ PassDoesNotPanic(state, data)
    /\ panic = NoPanic
    /\ outbox = <<>>
    /\ groups = <<>>
    /\ lastEvent = [type |-> "None", peer |-> 0, decoded |-> FALSE,
                    replaced |-> FALSE, failing |-> {}]
    /\ lastTicket = [p \in Peers |-> NoTicket]
    /\ acked = [p \in PassPeers |-> data[p] # NoTicket]
    /\ game = NoGame
    /\ users = {}
    /\ calls = [c \in Calls |-> NoCall]
    /\ reply = NoReply

\* an iteration in which host.service(1000) timed out: the pass alone
GroupingPass == Iteration([type |-> "None", zombies |-> {}], {})

PassNext == GroupingPass

PassSpec == PassInit /\ [][PassNext]_vars

(***************************************************************************)
(* handle_enet_event on its own, over the registries and the events.       *)
(***************************************************************************)
\* the registry in which slot p holds c[p]
RegistryOf(c) ==
    [state |-> [p \in DOMAIN c |->
                  IF c[p] = <<"free">> THEN "Disconnected" ELSE "Connected"],
     data |-> [p \in DOMAIN c |->
                 IF Len(c[p]) = 1 THEN NoTicket ELSE PassTicket(p, c[p])]]

\* the events host.service can return when the peers are in the states st
HandlerEvents(st) ==
    UNION {{[type |-> "Receive", sender |-> p, packet |-> packet] :
               packet \in ClientPackets[p]} :
             p \in {q \in DOMAIN st : st[q] = "Connected"}}
    \cup {[type |-> "Connect", peer |-> p] :
             p \in {q \in DOMAIN st : st[q] = "Disconnected"}}
    \cup {[type |-> "Disconnect", peer |-> p] :
             p \in {q \in DOMAIN st : st[q] = "Connected"}}

\* the calls handle_enet_event(event) with the registry of the slots peers
\* they find
HandlerCalls(peers) ==
    UNION {[phase : {"event"},
            event : HandlerEvents(RegistryOf(c).state),
            state : {RegistryOf(c).state},
            data : {RegistryOf(c).data}] : c \in [peers -> PassChoices]}

HandlerInit ==
    /\ state = [p \in Peers |-> "Disconnected"]
    /\ data = [p \in Peers |-> NoTicket]
    /\ panic = NoPanic
    /\ outbox = <<>>
    /\ groups = <<>>
    /\ lastEvent = [type |-> "None", peer |-> 0, decoded |-> FALSE,
                    replaced |-> FALSE, failing |-> {}]
    /\ lastTicket = [p \in Peers |-> NoTicket]
    /\ acked = [p \in Peers |-> FALSE]
    /\ game \in HandlerCalls(Peers)
    /\ users = {}
    /\ calls = [c \in Calls |-> NoCall]
    /\ reply = NoReply

\* host.service has changed the state of the event's peer and
\* handle_enet_event returns, or panics
Handle ==
    /\ game.phase = "event"
    /\ game' = [phase |-> "handled",
                event |-> game.event,
                state |-> game.state,
                data |-> game.data,
                result |-> handle_enet_event(game.event,
                                             Service(game.event, game.state),
                                             game.data, {})]
    /\ UNCHANGED <<state, data, panic, outbox, groups, lastEvent, lastTicket,
                   users, reply, acked, calls>>

HandlerNext == Handle

HandlerSpec == HandlerInit /\ [][HandlerNext]_vars

(***************************************************************************)
(* create_game on its own, over all outcomes of its random draws.          *)
(***************************************************************************)
\* the largest group handed to create_game
MaxPlayers == 4

\* the tickets the player at position j of a group may hold
BuilderTickets(j) ==
    {DecodeTicket([kind |-> "json", value |-> TicketJson(j, ct[1], ct[2], 2)]).ticket :
        ct \in {<<"A#1", "B#2">>, <<"B#2", "A#1">>}}

\* the groups of n players: position j holds a ticket and the address of slot j
BuilderPlayers(n) ==
    {[j \in 1..n |-> <<t[j], PeerAddress(j)>>] :
        t \in {u \in [1..n -> UNION {BuilderTickets(j) : j \in 1..n}] :
                  \A j \in 1..n : u[j] \in BuilderTickets(j)}}

\* the calls create_game(_players, mode) for groups of up to most players,
\* with the outcome of the draws
BuilderCalls(most) ==
    UNION {[phase : {"called"},
            _players : BuilderPlayers(n),
            mode : {mode},
            rng : Rngs(mode)] : n \in 0..most, mode \in Modes}

BuilderInit ==
    /\ state = [p \in Peers |-> "Disconnected"]
    /\ data = [p \in Peers |-> NoTicket]
    /\ panic = NoPanic
    /\ outbox = <<>>
    /\ groups = <<>>
    /\ lastEvent = [type |-> "None", peer |-> 0, decoded |-> FALSE,
                    replaced |-> FALSE, failing |-> {}]
    /\ lastTicket = [p \in Peers |-> NoTicket]
    /\ acked = [p \in Peers |-> FALSE]
    /\ game \in BuilderCalls(MaxPlayers)
    /\ users = {}
    /\ calls = [c \in Calls |-> NoCall]
    /\ reply = NoReply

\* the call returns its messages, or panics
Build ==
    /\ game.phase = "called"
    /\ \E r \in {create_game(game._players, game.mode, game.rng)} :
          game' = [phase |-> "returned",
                   _players |-> game._players,
                   mode |-> game.mode,
                   rng |-> game.rng,
                   panic |-> r.panic,
                   messages |-> r.messages]
    /\ UNCHANGED <<state, data, panic, outbox, groups, lastEvent, lastTicket,
                   users, reply, acked, calls>>

\* the messages returned are written as JSON, as they are for send_packet
Encode ==
    /\ game.phase = "returned"
    /\ game.panic = NoPanic
    /\ game' = [phase |-> "encoded",
                _players |-> game._players,
                mode |-> game.mode,
                rng |-> game.rng,
                panic |-> game.panic,
                messages |-> game.messages,
                wire |-> [i \in DOMAIN game.messages |-> to_json(game.messages[i])]]
    /\ UNCHANGED <<state, data, panic, outbox, groups, lastEvent, lastTicket,
                   users, reply, acked, calls>>

\* the JSON objects are read back as MatchmakingMessage
Decode ==
    /\ game.phase = "encoded"
    /\ game' = [phase |-> "decoded",
                _players |-> game._players,
                mode |-> game.mode,
                rng |-> game.rng,
                panic |-> game.panic,
                messages |-> game.messages,
                wire |-> game.wire,
                decoded |-> [i \in DOMAIN game.wire |-> from_json(game.wire[i])]]
    /\ UNCHANGED <<state, data, panic, outbox, groups, lastEvent, lastTicket,
                   users, reply, acked, calls>>

BuilderNext == Build \/ Encode \/ Decode

BuilderSpec == BuilderInit /\ [][BuilderNext]_vars

(***************************************************************************)
(* The validation functions of the account model on their own.             *)
(***************************************************************************)
\* the longest connect code made of every character of the alphabet
MaxCodeLen == 3

\* characters of every class the validation functions tell apart
Alphabet == {"A", "a", "1", "#", "-", "U+3084", "U+30EA", "U+00BD"}

\* the codes of up to len characters of the alphabet
ShortCodes(len) == UNION {[1..n -> Alphabet] : n \in 0..len}

\* k times the letter A
Pad(k) == [i \in 1..k |-> "A"]

\* the connect codes up to one character longer than CONNECT_CODE_MAX_LENGTH
LongCodes(len) ==
    {Pad(k) \o c :
        k \in {CONNECT_CODE_MAX_LENGTH - len, CONNECT_CODE_MAX_LENGTH - len + 1},
        c \in ShortCodes(len)}

Codes(len) == ShortCodes(len) \cup LongCodes(len)

DisplayNames ==
    {<<>>,
     <<"t", "e", "s", "t">>,
     <<"s", "i", "t", "e", "/", "u">>,
     <<"U+3084", "A", " ">>,
     <<"U+3084", "a">>,
     <<"U+2764">>}

\* the calls of User::is_valid_connect_code and of User::new
ValidationCalls(codes) ==
    [op : {"is_valid_connect_code"}, phase : {"called"}, connect_code : codes]
    \cup [op : {"User::new"}, phase : {"called"},
          display_name : DisplayNames, connect_code : codes]

ValidationInit ==
    /\ state = [p \in Peers |-> "Disconnected"]
    /\ data = [p \in Peers |-> NoTicket]
    /\ panic = NoPanic
    /\ outbox = <<>>
    /\ groups = <<>>
    /\ lastEvent = [type |-> "None", peer |-> 0, decoded |-> FALSE,
                    replaced |-> FALSE, failing |-> {}]
    /\ lastTicket = [p \in Peers |-> NoTicket]
    /\ acked = [p \in Peers |-> FALSE]
    /\ game = NoGame
    /\ users = {}
    /\ calls = [c \in Calls |-> NoCall]
    /\ reply \in ValidationCalls(Codes(MaxCodeLen))

\* User::is_valid_connect_code returns
IsValidConnectCode ==
    /\ reply.op = "is_valid_connect_code"
    /\ reply.phase = "called"
    /\ reply' = [op |-> reply.op,
                 phase |-> "returned",
                 connect_code |-> reply.connect_code,
                 result |-> is_valid_connect_code(reply.connect_code)]
    /\ UNCHANGED <<state, data, panic, outbox, groups, lastEvent, lastTicket,
                   game, users, acked, calls>>

\* User::new returns
UserNew ==
    /\ reply.op = "User::new"
    /\ reply.phase = "called"
    /\ reply' = [op |-> reply.op,
                 phase |-> "returned",
                 display_name |-> reply.display_name,
                 connect_code |-> reply.connect_code,
                 result |-> User_new(reply.display_name, reply.connect_code,
                                     "uid-1", "key-1")]
    /\ UNCHANGED <<state, data, panic, outbox, groups, lastEvent, lastTicket,
                   game, users, acked, calls>>

ValidationNext == IsValidConnectCode \/ UserNew

ValidationSpec == ValidationInit /\ [][ValidationNext]_vars

(***************************************************************************)
(* The table users and the functions of User that read and write it.       *)
(***************************************************************************)
\* Option::<bool>::None
NoAnswer == [some |-> FALSE]

\* the connect code never found in the table
is_connect_code_in_use_Never(rows, connect_code, select_ok) ==
    [some |-> TRUE, in_use |-> FALSE]

\* User::is_connect_code_in_use: Some(count(uid) > 0) over the rows with the
\* code when the select answers (select_ok), None when it fails
is_connect_code_in_use(rows, connect_code, select_ok) ==
    IF select_ok
    THEN [some |-> TRUE,
          in_use |-> Cardinality({r \in rows : r.connect_code = connect_code}) > 0]
    ELSE NoAnswer

\* User::is_username_in_use: Some(count(uid) > 0) over the rows with the
\* username when the select answers, None when it fails
is_username_in_use(rows, username, select_ok) ==
    IF select_ok
    THEN [some |-> TRUE,
          in_use |-> Cardinality({r \in rows : r.username = username}) > 0]
    ELSE NoAnswer

\* the Argon2 digest of a password under a salt, taken to be free of
\* collisions
Argon2(password, salt) == [password |-> password, salt |-> salt]

\* User::hash_password: the PHC string, which names the salt and the digest
hash_password(password, salt) ==
    [algorithm |-> "argon2id", salt |-> salt, hash |-> Argon2(password, salt)]

\* every password accepted
verify_password_Always(password, parsed_hash) == TRUE

\* Argon2::verify_password: the digest of the password under the salt of
\* the stored hash is the stored digest
verify_password(password, parsed_hash) ==
    Argon2(password, parsed_hash.salt) = parsed_hash.hash

\* The constraints of the table users: uid is its key, username and
\* connect_code are unique.  The insert of a row that breaks one fails.
UniqueViolation(rows, row) ==
    \E r \in rows :
        \/ r.uid = row.uid
        \/ r.username = row.username
        \/ r.connect_code = row.connect_code

\* User::from_row: the columns of the row that User has
from_row(row) ==
    [uid |-> row.uid,
     play_key |-> row.play_key,
     display_name |-> row.display_name,
     connect_code |-> row.connect_code,
     latest_version |-> row.latest_version]

\* User::create: the result and the rows of the table after it.  The insert
\* fails when the row breaks a constraint of the table and when the database
\* refuses the statement (db_ok is false); every failure of the insert is
\* reported as unknown on database.
create(rows, username, password, display_name, connect_code, uid, play_key, salt, db_ok) ==
    LET made == User_new(display_name, connect_code, uid, play_key) IN
    IF ~made.ok THEN [result |-> made, rows |-> rows]
    ELSE LET row == [uid |-> made.user.uid,
                     username |-> username,
                     password |-> hash_password(password, salt),
                     play_key |-> made.user.play_key,
                     display_name |-> made.user.display_name,
                     connect_code |-> made.user.connect_code,
                     latest_version |-> made.user.latest_version]
         IN  IF UniqueViolation(rows, row) \/ ~db_ok
             THEN [result |-> [ok |-> FALSE,
                               errors |-> AddError(NoErrors, "database", "unknown")],
                   rows |-> rows]
             ELSE [result |-> [ok |-> TRUE, user |-> made.user],
                   rows |-> rows \cup {row}]

\* the errors check_constraints_and_create finds in its arguments alone
LengthErrors(username, password) ==
    LET e1 == IF username = "" THEN AddError(NoErrors, "username", "length")
              ELSE NoErrors
    IN  IF password = "" THEN AddError(e1, "password", "length") ELSE e1

\* the errors after the select of is_connect_code_in_use on the rows
\* (136-142): the check is skipped when the select gave None
CodeInUseError(errors, rows, connect_code, select_ok) ==
    LET answer == is_connect_code_in_use(rows, connect_code, select_ok) IN
    IF answer.some /\ answer.in_use
    THEN AddError(errors, "connect_code", "duplicated") ELSE errors

\* the errors after the select of is_username_in_use on the rows (146-152):
\* the check is skipped when the select gave None
UsernameInUseError(errors, rows, username, select_ok) ==
    LET answer == is_username_in_use(rows, username, select_ok) IN
    IF answer.some /\ answer.in_use
    THEN AddError(errors, "username", "duplicated") ELSE errors

\* tx.commit(): the rows of the table after it.  The rows written in the
\* transaction are kept when the commit succeeds (tx_ok) and lost when it
\* fails.
commit(rows, written, tx_ok) == IF tx_ok THEN rows \cup written ELSE rows

\* Another transaction has written and not ended: SQLite has one writer at
\* a time, and it refuses the insert of every other connection until the
\* writer commits.
WriteLocked(c) ==
    \E d \in DOMAIN calls \ {c} : calls[d].pc = "created" /\ calls[d].written # {}

\* a select of the call has answered: its transaction has read the table
Answered(call) == call.lookups.connect_code \/ call.lookups.username

\* the rows a select of the call reads: those committed at the first select
\* of its transaction that answered, and the rows of the table when none has
Snapshot(call) == IF Answered(call) THEN call.seen ELSE users

\* The transaction of the call c has read rows that are no more the rows of
\* the table: another transaction has committed since its first select that
\* answered.  SQLite refuses the insert of such a transaction.
Stale(c) == Snapshot(calls[c]) # users

\* Option::<User>::None
NoUser == [some |-> FALSE]

\* User::get_user_from_credentials: None when fetch_one gives an error,
\* which it does when no row has the username and when the select fails
\* (select_ok is false)
get_user_from_credentials(rows, username, password, select_ok) ==
    LET found == {r \in rows : r.username = username} IN
    IF ~select_ok \/ found = {} THEN NoUser
    ELSE LET user == CHOOSE r \in found : TRUE IN
         IF verify_password(password, user.password)
         THEN [some |-> TRUE, user |-> from_row(user)]
         ELSE NoUser

Usernames == {"test", "test2"}

\* the passwords User::create is called with
NewPasswords == {"password"}

\* the passwords of the registration form
FormPasswords == {"", "password"}

\* the passwords of the logins
Passwords == {"password", "hunter2", ""}

\* the salts SaltString::generate may return
Salts == {"salt-1"}

UserDisplayNames == {<<"t", "e", "s", "t">>}

UserCodes == {<<"A", "#", "1">>, <<"A", "#", "2">>}

\* the connect codes of the registration form: one of those and one that
\* User::new refuses
FormCodes == {<<"A", "#", "1">>, <<"a", "#", "1">>}

\* The identifier Uuid::new() or ObjectId::new() generates: one that no
\* row has.  User::new generates it right before the insert, and one
\* transaction writes at a time.
Fresh(prefix) == prefix \o ToString(Cardinality(users) + 1)

UserInit ==
    /\ state = [p \in Peers |-> "Disconnected"]
    /\ data = [p \in Peers |-> NoTicket]
    /\ panic = NoPanic
    /\ outbox = <<>>
    /\ groups = <<>>
    /\ lastEvent = [type |-> "None", peer |-> 0, decoded |-> FALSE,
                    replaced |-> FALSE, failing |-> {}]
    /\ lastTicket = [p \in Peers |-> NoTicket]
    /\ acked = [p \in Peers |-> FALSE]
    /\ game = NoGame
    /\ users = {}
    /\ calls = [c \in Calls |-> NoCall]
    /\ reply = NoReply

\* a call of User::create on the pool: one statement, in a transaction of
\* its own
Create ==
    \E username \in Usernames, password \in NewPasswords,
       display_name \in UserDisplayNames, connect_code \in UserCodes,
       salt \in Salts, db_ok \in BOOLEAN :
       \E r \in {create(users, username, password, display_name, connect_code,
                         Fresh("uid-"), Fresh("key-"), salt,
                         db_ok /\ ~WriteLocked(0))} :
          /\ users' = r.rows
          /\ reply' = [op |-> "create",
                       username |-> username,
                       password |-> password,
                       display_name |-> display_name,
                       connect_code |-> connect_code,
                       result |-> r.result]
          /\ UNCHANGED <<state, data, panic, outbox, groups, lastEvent,
                         lastTicket, game, acked, calls>>

\* what check_constraints_and_create returns to register_form from create
\* (171), with the arguments of the call
CallReturned(call, result) ==
    [op |-> "check_constraints_and_create",
     username |-> call.username,
     password |-> call.password,
     display_name |-> call.display_name,
     connect_code |-> call.connect_code,
     result |-> result]

\* what it returns from its checks (155): the errors, with the arguments of
\* the call and the selects of the call that answered
ErrorsReturned(call, lookups, errors) ==
    [op |-> "check_constraints_and_create",
     username |-> call.username,
     password |-> call.password,
     display_name |-> call.display_name,
     connect_code |-> call.connect_code,
     lookups |-> lookups,
     result |-> [ok |-> FALSE, errors |-> errors]]

\* check_constraints_and_create up to its first select (121-142): the
\* first idle task c takes a request, the arguments are checked for their length and the
\* connect code is looked up; the select answers or fails.  The transaction
\* of the call reads the rows committed at its first select that answers,
\* there and in its later selects (seen).
CheckConnectCode ==
    \E c \in Calls, select_ok \in BOOLEAN :
    \E username \in Usernames, password \in FormPasswords,
       display_name \in UserDisplayNames, connect_code \in FormCodes :
       /\ calls[c].pc = "idle"
       /\ \A d \in Calls : d < c => calls[d].pc # "idle"
       /\ calls' = [calls EXCEPT ![c] =
                      [pc |-> "code_checked",
                       username |-> username,
                       password |-> password,
                       display_name |-> display_name,
                       connect_code |-> connect_code,
                       lookups |-> [connect_code |-> select_ok, username |-> FALSE],
                       seen |-> IF select_ok THEN users ELSE {},
                       errors |-> CodeInUseError(LengthErrors(username, password),
                                                 users, connect_code, select_ok)]]
       /\ reply' = NoReply
       /\ UNCHANGED <<state, data, panic, outbox, groups, lastEvent, lastTicket,
                      game, users, acked>>

\* check_constraints_and_create from its second select (144-156): the
\* username is looked up in the rows the transaction reads, the select
\* answers or fails, and the call returns the errors when there are some
CheckUsername ==
    \E c \in Calls, select_ok \in BOOLEAN :
       /\ calls[c].pc = "code_checked"
       /\ \E errors \in {UsernameInUseError(calls[c].errors, Snapshot(calls[c]),
                                            calls[c].username, select_ok)},
             lookups \in {[calls[c].lookups EXCEPT !.username = select_ok]} :
             IF errors # NoErrors
             THEN /\ calls' = [calls EXCEPT ![c] = NoCall]
                  /\ reply' = ErrorsReturned(calls[c], lookups, errors)
             ELSE /\ calls' = [calls EXCEPT ![c] =
                                 [pc |-> "checked",
                                  username |-> calls[c].username,
                                  password |-> calls[c].password,
                                  display_name |-> calls[c].display_name,
                                  connect_code |-> calls[c].connect_code,
                                  lookups |-> lookups,
                                  seen |-> IF select_ok THEN Snapshot(calls[c])
                                           ELSE calls[c].seen]]
                  /\ reply' = NoReply
       /\ UNCHANGED <<state, data, panic, outbox, groups, lastEvent, lastTicket,
                      game, users, acked>>

\* check_constraints_and_create at its call of create (158-160): the row is
\* written in the transaction of the call, not yet committed.  The insert
\* fails while another transaction holds the write lock and after another
\* transaction has committed.
Insert ==
    \E c \in Calls, salt \in Salts, db_ok \in BOOLEAN :
       /\ calls[c].pc = "checked"
       /\ \E r \in {create(users, calls[c].username, calls[c].password,
                            calls[c].display_name, calls[c].connect_code,
                            Fresh("uid-"), Fresh("key-"), salt,
                            db_ok /\ ~WriteLocked(c) /\ ~Stale(c))} :
             calls' = [calls EXCEPT ![c] =
                         [pc |-> "created",
                          username |-> calls[c].username,
                          password |-> calls[c].password,
                          display_name |-> calls[c].display_name,
                          connect_code |-> calls[c].connect_code,
                          result |-> r.result,
                          written |-> r.rows \ users]]
       /\ reply' = NoReply
       /\ UNCHANGED <<state, data, panic, outbox, groups, lastEvent, lastTicket,
                      game, users, acked>>

\* check_constraints_and_create from tx.commit() (162-171): the result of
\* create is returned whatever the commit did
Commit ==
    \E c \in Calls, tx_ok \in BOOLEAN :
       /\ calls[c].pc = "created"
       /\ users' = commit(users, calls[c].written, tx_ok)
       /\ reply' = CallReturned(calls[c], calls[c].result)
       /\ calls' = [calls EXCEPT ![c] = NoCall]
       /\ UNCHANGED <<state, data, panic, outbox, groups, lastEvent, lastTicket,
                      game, acked>>

\* a call of User::get_user_from_credentials; its select answers or fails
GetUserFromCredentials ==
    \E username \in Usernames, password \in Passwords, select_ok \in BOOLEAN :
       /\ reply' = [op |-> "get_user_from_credentials",
                    username |-> username,
                    password |-> password,
                    answered |-> select_ok,
                    result |-> get_user_from_credentials(users, username, password,
                                                         select_ok)]
       /\ UNCHANGED <<state, data, panic, outbox, groups, lastEvent,
                      lastTicket, game, users, acked, calls>>

\* the registrations: calls of User::create and of
\* check_constraints_and_create, the latter in tasks that run together
UserNext ==
    \/ Create
    \/ CheckConnectCode
    \/ CheckUsername
    \/ Insert
    \/ Commit

UserSpec == UserInit /\ [][UserNext]_vars

\* the logins: calls of get_user_from_credentials on a table that calls of
\* User::create fill
LoginNext ==
    \/ Create
    \/ GetUserFromCredentials

LoginSpec == UserInit /\ [][LoginNext]_vars

(***************************************************************************)
(* Vocabulary of the properties.                                           *)
(***************************************************************************)
HasTicket(p) == data[p] # NoTicket

\* p is seen by the grouping pass
Ticketed(p) == state[p] = "Connected" /\ HasTicket(p)

\* p holds a Direct ticket with a target, seen by the grouping pass
Keyed(p) ==
    /\ Ticketed(p)
    /\ data[p].search.mode = "Direct"
    /\ data[p].search.connect_code # None

SameKey(p, q) == DirectKey(data[p]) = DirectKey(data[q])

\* the members of the ready groups of the last pass
GroupMembers == UNION {Range(groups[i]) : i \in DOMAIN groups}

\* the sends of the last iteration, by kind
GtrSends == {i \in DOMAIN outbox : IsGtr(outbox[i])}

AckSends == {i \in DOMAIN outbox : IsAck(outbox[i])}

\* the loop has aborted while grouping or building a session
PassPanicked == panic \in {"connect_code", "ports.get", "send_packet"}

\* a and b hold Direct tickets that name each other
Mutual(a, b) ==
    /\ a # b
    /\ Keyed(a) /\ Keyed(b)
    /\ data[a].search.connect_code = data[b].user.connect_code
    /\ data[b].search.connect_code = data[a].user.connect_code

(***************************************************************************)
(* C1 -- C10.                                                              *)
(***************************************************************************)
\* C1: a ticket leads to at most one get-ticket-resp: a peer that was sent a
\* get-ticket-resp in one iteration, and that the next iteration's event is
\* not about (no new ticket), is sent none in the next iteration.
C1_OneResponsePerTicket ==
    [][\A p \in Peers :
          (GtrTo(outbox, p) > 0 /\ lastEvent'.peer # p) => GtrTo(outbox', p) = 0]_vars

\* C2: at the end of an iteration that sent a session to a ready group,
\* every member of the group holds no ticket.
C2_MatchedTicketsCleared ==
    \A i \in DOMAIN groups :
        (\A p \in Range(groups[i]) : GtrTo(outbox, p) > 0)
        => \A p \in Range(groups[i]) : data[p] = NoTicket

\* C3: when the loop has not aborted, in the iteration that stored the
\* ticket of a or b, two connected peers whose Direct tickets name each
\* other are in one ready group and are both sent a get-ticket-resp.
C3_MutualPairMatched ==
    \A a, b \in Peers :
        (/\ Mutual(a, b)
         /\ lastEvent.type = "Receive" /\ lastEvent.peer \in {a, b}
         /\ panic = NoPanic)
        => /\ \E i \in DOMAIN groups : {a, b} \subseteq Range(groups[i])
           /\ GtrTo(outbox, a) > 0
           /\ GtrTo(outbox, b) > 0

\* C4: after a Receive whose packet does not decode, the loop has not
\* aborted and the sender is no longer connected.
C4_UndecodableDisconnects ==
    (lastEvent.type = "Receive" /\ ~lastEvent.decoded)
    => /\ panic = NoPanic
       /\ state[lastEvent.peer] # "Connected"

\* C5: a peer whose ticket has a mode other than Direct has been asked to
\* disconnect, has been sent nothing in this iteration, and is in no ready
\* group, in the iteration that stored the ticket and in every later one.
C5_OtherModesRejected ==
    \A p \in Peers :
        (HasTicket(p) /\ data[p].search.mode # "Direct")
        => /\ state[p] = "Disconnecting"
           /\ \A i \in DOMAIN outbox : outbox[i].to # p
           /\ p \notin GroupMembers

C5_Witness ==
    \E p, q \in Peers :
        /\ lastEvent.type = "Receive" /\ lastEvent.peer = p /\ lastEvent.decoded
        /\ data[p].search.mode = "Teams"
        /\ HasTicket(q) /\ data[q].search.mode = "Ranked"
        /\ \E r \in Peers : HasTicket(r) /\ data[r].search.mode = "Unranked"
        /\ state[q] = "Disconnecting"

\* C6: after a Receive of a decodable Direct ticket, the sender's data is
\* that ticket and the iteration has sent exactly one create-ticket-resp,
\* to the sender.
C6_DirectTicketAcked ==
    (/\ lastEvent.type = "Receive" /\ lastEvent.decoded
     /\ lastTicket[lastEvent.peer].search.mode = "Direct")
    => /\ data[lastEvent.peer] = lastTicket[lastEvent.peer]
       /\ Cardinality(AckSends) = 1
       /\ \A i \in AckSends : outbox[i].to = lastEvent.peer

C6_Witness ==
    /\ lastEvent.type = "Receive" /\ lastEvent.decoded
    /\ lastTicket[lastEvent.peer].search.mode = "Direct"
    /\ \E q \in Peers : q # lastEvent.peer /\ Ticketed(q)
    /\ panic = NoPanic

\* C7: the data of every peer is the last ticket decoded from it, and every
\* get-ticket-resp sent to a member of a ready group lists the members by
\* their last decoded tickets.
C7_LatestTicketOnly ==
    /\ \A p \in Peers : data[p] = lastTicket[p]
    /\ \A g \in DOMAIN groups : \A i \in GtrSends :
          outbox[i].to \in Range(groups[g])
          => /\ Len(outbox[i].msg.players) = Len(groups[g])
             /\ \A j \in DOMAIN groups[g] :
                   LET shown == outbox[i].msg.players[j]
                       held == lastTicket[groups[g][j]]
                   IN  /\ shown.uid = held.user.uid
                       /\ shown.connect_code = held.user.connect_code
                       /\ shown.ip_address_lan = held.ip_address_lan

C7_Witness ==
    /\ lastEvent.type = "Receive" /\ lastEvent.replaced
    /\ lastEvent.peer \in GroupMembers
    /\ GtrTo(outbox, lastEvent.peer) > 0

\* p holds a Direct ticket whose key no other peer seen by the pass shares
Solitary(p) ==
    /\ Keyed(p)
    /\ \A q \in Peers \ {p} : Keyed(q) => ~SameKey(p, q)

\* C8: every member of a ready group shares its key with another member,
\* get-ticket-resp goes to members of ready groups only, so a solitary
\* ticket is in no group and is sent none; and a pass over solitary tickets
\* alone forms no group and does not abort the loop.
C8_SolitaryStaysPending ==
    /\ \A g \in DOMAIN groups : \A p \in Range(groups[g]) :
          \E q \in Range(groups[g]) \ {p} : Keyed(p) /\ Keyed(q) /\ SameKey(p, q)
    /\ \A i \in GtrSends : outbox[i].to \in GroupMembers
    /\ \A p \in Peers :
          Solitary(p) => p \notin GroupMembers /\ GtrTo(outbox, p) = 0
    /\ (\A p \in Peers : Ticketed(p) => Solitary(p))
       => groups = <<>> /\ ~PassPanicked

C8_Witness ==
    \E p, q \in Peers :
        /\ p # q
        /\ Solitary(p) /\ Solitary(q)
        /\ lastEvent.type = "None"
        /\ panic = NoPanic

\* C9: every ready group and every session has exactly 2 players, and when
\* three connected peers hold Direct tickets with one key the loop goes on
\* and two of them are sent a session.
C9_DirectSessionsCappedAtTwo ==
    /\ \A g \in DOMAIN groups : Len(groups[g]) = 2
    /\ \A i \in GtrSends : Len(outbox[i].msg.players) = 2
    /\ \A p, q, r \in Peers :
          (/\ p < q /\ q < r
           /\ Keyed(p) /\ Keyed(q) /\ Keyed(r)
           /\ SameKey(p, q) /\ SameKey(q, r)
           /\ \A x \in Peers : Ticketed(x) => Keyed(x))
          => /\ panic = NoPanic
             /\ Cardinality({x \in {p, q, r} : GtrTo(outbox, x) > 0}) = 2

\* C10: a ready group larger than the port pool of its mode is rejected:
\* none of its members is sent a get-ticket-resp and the loop does not
\* abort.
C10_OversizedGroupRejected ==
    \A g \in DOMAIN groups :
        Len(groups[g]) > Len(get_ports(data[groups[g][1]].search.mode))
        => /\ panic = NoPanic
           /\ \A p \in Range(groups[g]) : GtrTo(outbox, p) = 0

(***************************************************************************)
(* C11 -- C20.                                                             *)
(***************************************************************************)
\* p holds a Direct ticket whose target is its own connect code
SelfTarget(p) ==
    /\ HasTicket(p)
    /\ data[p].search.mode = "Direct"
    /\ data[p].search.connect_code = data[p].user.connect_code

\* C11 as stated: a peer whose Direct ticket targets its own connect code is
\* in no ready group and is sent no get-ticket-resp, whatever the tickets of
\* the other peers.
C11_SelfTargetNeverMatched ==
    \A p \in Peers :
        SelfTarget(p) => p \notin GroupMembers /\ GtrTo(outbox, p) = 0

\* C11 amended: a peer whose Direct ticket targets its own connect code is
\* sent a get-ticket-resp only as a member of a ready group, and every
\* member of its ready group is another connected peer whose ticket has the
\* same own and the same target connect code.
C11_SelfTargetMatchedOnlyWithTwin ==
    \A p \in Peers :
        SelfTarget(p)
        => /\ GtrTo(outbox, p) > 0 => p \in GroupMembers
           /\ \A g \in DOMAIN groups :
                 p \in Range(groups[g])
                 => /\ Len(groups[g]) > 1
                    /\ \A q \in Range(groups[g]) :
                          /\ state[q] = "Connected"
                          /\ data[q].user.connect_code = data[p].user.connect_code
                          /\ data[q].search.connect_code = data[p].user.connect_code

C11_Witness ==
    \E p, r \in Peers :
        /\ SelfTarget(p)
        /\ p \in GroupMembers
        /\ GtrTo(outbox, p) > 0
        /\ Keyed(r)
        /\ data[r].search.connect_code = data[p].user.connect_code
        /\ data[r].user.connect_code # data[p].user.connect_code
        /\ r \notin GroupMembers

\* create_game has returned its messages
Returned == game.phase = "returned" /\ game.panic = NoPanic

\* C12: the two get-ticket-resp messages of a 2-player Direct session have
\* complementary isHost flags, for every outcome of the draws.
C12_OneHostOfTwo ==
    (/\ game.phase = "returned"
     /\ game.mode = "Direct"
     /\ Len(game._players) = 2)
    => /\ game.panic = NoPanic
       /\ Len(game.messages) = 2
       /\ game.messages[1].is_host # game.messages[2].is_host

C12_Witness ==
    /\ Returned
    /\ game.mode = "Direct"
    /\ Len(game._players) = 2
    /\ game.rng.host = "Two"
    /\ game.messages[2].is_host
    /\ ~game.messages[1].is_host

\* C13: in every message of create_game, is_host is true exactly when the
\* port shown for the recipient in the players list is the host port drawn.
C13_HostIffAssignedPortIsHostPort ==
    Returned
    => \A i \in DOMAIN game.messages :
          game.messages[i].is_host
          <=> (game.messages[i].players[i].port = game.rng.host)

\* C14: in a session of no more players than the mode has ports, every
\* message shows the same port for a player, the ports of different players
\* differ, and every port is one of get_ports(mode), One or Two for Direct.
C14_PortsConsistentDistinctFromPool ==
    (game.phase = "returned" /\ Len(game._players) <= Len(get_ports(game.mode)))
    => /\ game.panic = NoPanic
       /\ \A i, k \in DOMAIN game.messages : \A j \in DOMAIN game._players :
             game.messages[i].players[j].port = game.messages[k].players[j].port
       /\ \A i \in DOMAIN game.messages : \A j, l \in DOMAIN game._players :
             /\ j # l => game.messages[i].players[j].port
                         # game.messages[i].players[l].port
             /\ game.messages[i].players[j].port \in Range(get_ports(game.mode))
             /\ game.mode = "Direct"
                => game.messages[i].players[j].port \in {"One", "Two"}

C14_Witness ==
    /\ Returned
    /\ game.mode = "Teams"
    /\ Len(game._players) = 4
    /\ game.rng.shuffle = <<"Three", "One", "Four", "Two">>
    /\ game.messages[2].players[1].port = "Three"

\* C15: create_game returns one message per group member, and the players
\* list of the message at position i has one entry per member, built from
\* the members' tickets in order, with isLocalPlayer true at position i and
\* false elsewhere.
C15_OneMessagePerMemberOneLocalPlayer ==
    Returned
    => /\ Len(game.messages) = Len(game._players)
       /\ \A i \in DOMAIN game.messages :
             /\ Len(game.messages[i].players) = Len(game._players)
             /\ \A j \in DOMAIN game._players :
                   /\ game.messages[i].players[j].is_local_player <=> (i = j)
                   /\ game.messages[i].players[j].uid = game._players[j][1].user.uid

C15_Witness ==
    /\ Returned
    /\ game.mode = "Teams"
    /\ Len(game.messages) = 3
    /\ game.messages[3].players[3].is_local_player
    /\ ~game.messages[3].players[1].is_local_player

\* C16: the messages of one session carry the same match_id, the same
\* stages (those of get_allowed_stages(mode)), the same latest_version and
\* is_assigned = true, and show the same players in the same order with the
\* same uid, display name, connect code, addresses and port.
C16_MessagesDifferOnlyInFlags ==
    Returned
    => \A i, k \in DOMAIN game.messages :
          /\ game.messages[i].match_id = game.messages[k].match_id
          /\ game.messages[i].stages = game.messages[k].stages
          /\ game.messages[i].stages = get_allowed_stages(game.mode)
          /\ game.messages[i].latest_version = game.messages[k].latest_version
          /\ game.messages[i].latest_version = "2.5.1"
          /\ game.messages[i].is_assigned = TRUE
          /\ Len(game.messages[i].players) = Len(game.messages[k].players)
          /\ \A j \in DOMAIN game.messages[i].players :
                LET a == game.messages[i].players[j]
                    b == game.messages[k].players[j]
                IN  /\ a.uid = b.uid
                    /\ a.display_name = b.display_name
                    /\ a.connect_code = b.connect_code
                    /\ a.ip_address = b.ip_address
                    /\ a.ip_address_lan = b.ip_address_lan
                    /\ a.port = b.port

C16_Witness ==
    /\ Returned
    /\ game.mode = "Unranked"
    /\ Len(game.messages) = 2
    /\ game.messages[1] # game.messages[2]
    /\ game.messages[1].players[2].ip_address = "127.0.0.1:40002"

\* C17: every member of a ready group, and every peer sent a
\* get-ticket-resp, is a connected peer with a ticket at the pass; a peer
\* that has disconnected, is leaving or has been asked to disconnect is in
\* no ready group and is sent none, whatever ticket it still holds.
C17_OnlyConnectedTicketedMatched ==
    \A p \in Peers :
        (p \in GroupMembers \/ GtrTo(outbox, p) > 0)
        => state[p] = "Connected" /\ HasTicket(p)

C17_Witness ==
    \E p, q \in Peers :
        /\ q = p + 1
        /\ state[p] = "Zombie"
        /\ HasTicket(p)
        /\ Keyed(q)
        /\ DirectKey(data[p]) = DirectKey(data[q])
        /\ data[p].user.connect_code # data[q].user.connect_code
        /\ q \notin GroupMembers
        /\ GtrTo(outbox, q) = 0
        /\ panic = NoPanic

\* C18: when the send to one member of a ready group fails, the loop does
\* not abort and the other members of the group are sent their
\* get-ticket-resp.
C18_SendFailureIsolated ==
    \A g \in DOMAIN groups : \A p, q \in Range(groups[g]) :
        (q \in lastEvent.failing /\ p \notin lastEvent.failing)
        => panic = NoPanic /\ GtrTo(outbox, p) > 0

\* p and q are neighbours among the peers the pass sees
Adjacent(p, q) == p < q /\ \A r \in Peers : (p < r /\ r < q) => ~Ticketed(r)

\* C19: after every iteration that has not aborted, with an event or with
\* none, the ready groups are those of the registry as the event left it:
\* two neighbouring connected peers with equal keys are in one ready group,
\* and every member of a ready group of two was sent one get-ticket-resp.
C19_PassEveryIterationAfterEvent ==
    panic = NoPanic
    => /\ \A p, q \in Peers :
             (Adjacent(p, q) /\ Keyed(p) /\ Keyed(q) /\ SameKey(p, q))
             => \E g \in DOMAIN groups : {p, q} \subseteq Range(groups[g])
       /\ \A g \in DOMAIN groups : \A p \in Range(groups[g]) :
             GtrTo(outbox, p) = 1

C19_Witness ==
    /\ lastEvent.type = "None"
    /\ panic = NoPanic
    /\ \E p, q \in Peers :
          /\ Adjacent(p, q) /\ Keyed(p) /\ Keyed(q) /\ SameKey(p, q)
          /\ GtrTo(outbox, p) = 1
          /\ GtrTo(outbox, q) = 1
    /\ \E r \in Peers : state[r] = "Zombie"

\* C20: for every mode get_allowed_stages has no duplicates and contains
\* PokemonStadium, YoshisStory, DreamLand, Battlefield and FinalDestination;
\* for Teams it has 5 entries and no FountainOfDreams (id 2), for the other
\* modes 6 entries with FountainOfDreams; the messages carry that list.
C20_StagePools ==
    game.phase \in {"called", "returned"}
    => LET stages == get_allowed_stages(game.mode) IN
       /\ \A i, j \in DOMAIN stages : i # j => stages[i] # stages[j]
       /\ {"PokemonStadium", "YoshisStory", "DreamLand", "Battlefield",
           "FinalDestination"} \subseteq Range(stages)
       /\ game.mode = "Teams"
          => /\ Len(stages) = 5
             /\ \A i \in DOMAIN stages : StageId(stages[i]) # 2
       /\ game.mode \in {"Ranked", "Unranked", "Direct"}
          => /\ Len(stages) = 6
             /\ \E i \in DOMAIN stages : StageId(stages[i]) = 2
       /\ Returned => \A i \in DOMAIN game.messages : game.messages[i].stages = stages

C20_Witness ==
    /\ Returned
    /\ game.mode = "Teams"
    /\ Len(game.messages) = 4
    /\ Len(game.messages[4].stages) = 5
    /\ game.messages[4].stages[5] = "FinalDestination"

(***************************************************************************)
(* C21 -- C30.                                                             *)
(***************************************************************************)
\* C21: get_ports(Teams) is the 4 distinct ports One, Two, Three and Four;
\* get_ports of Ranked, Unranked and Direct is the 2 distinct ports One and
\* Two.
C21_PortPools ==
    game.phase \in {"called", "returned"}
    => LET ports == get_ports(game.mode) IN
       /\ \A i, j \in DOMAIN ports : i # j => ports[i] # ports[j]
       /\ game.mode = "Teams"
          => Len(ports) = 4 /\ Range(ports) = {"One", "Two", "Three", "Four"}
       /\ game.mode \in {"Ranked", "Unranked", "Direct"}
          => Len(ports) = 2 /\ Range(ports) = {"One", "Two"}

C21_Witness ==
    /\ Returned
    /\ game.mode = "Teams"
    /\ Len(game._players) = 4
    /\ {game.messages[1].players[j].port : j \in 1..4}
       = {"One", "Two", "Three", "Four"}
    /\ game.rng.host = "Four"

\* C22: in every players entry of every message of create_game, ip_address
\* is "ip:port" of the transport address passed in for that member, and
\* ip_address_lan, uid, display_name and connect_code are those of the
\* member's ticket.
C22_AddressFromTransportRestFromTicket ==
    Returned
    => \A i \in DOMAIN game.messages : \A j \in DOMAIN game._players :
          LET shown == game.messages[i].players[j]
              ticket == game._players[j][1]
              address == game._players[j][2]
          IN  /\ shown.ip_address = address.ip \o ":" \o ToString(address.port)
              /\ shown.ip_address_lan = ticket.ip_address_lan
              /\ shown.uid = ticket.user.uid
              /\ shown.display_name = ticket.user.display_name
              /\ shown.connect_code = ticket.user.connect_code

C22_Witness ==
    /\ Returned
    /\ game.mode = "Direct"
    /\ Len(game._players) = 2
    /\ game._players[2][1].ip_address_lan = "192.168.0.2:50285"
    /\ game.messages[1].players[2].ip_address = "127.0.0.1:40002"
    /\ game.messages[1].players[2].ip_address_lan = "192.168.0.2:50285"
    /\ game.messages[1].players[2].connect_code = "B#2"
    /\ game.messages[1].players[1].display_name = "player-1"

\* C23: a GetTicketResponse written as JSON and read back is the message
\* that was written, equal in latest_version, match_id, is_host,
\* is_assigned, players and stages; so it is for either value of
\* is_assigned.
C23_GetTicketResponseRoundTrip ==
    game.phase = "decoded"
    => \A i \in DOMAIN game.messages :
          /\ game.decoded[i].ok
          /\ LET sent == game.messages[i]
                 read == game.decoded[i].message
             IN  /\ read.latest_version = sent.latest_version
                 /\ read.match_id = sent.match_id
                 /\ read.is_host = sent.is_host
                 /\ read.is_assigned = sent.is_assigned
                 /\ read.players = sent.players
                 /\ read.stages = sent.stages
                 /\ read = sent
          /\ \A b \in BOOLEAN :
                LET other == [game.messages[i] EXCEPT !.is_assigned = b]
                IN  from_json(to_json(other)) = [ok |-> TRUE, message |-> other]

C23_Witness ==
    /\ game.phase = "decoded"
    /\ game.mode = "Teams"
    /\ Len(game.messages) = 4
    /\ game.wire[2].value["isHost"] = JBool(TRUE)
    /\ game.wire[2].value["stages"] =
          JArray(<<JNumber(3), JNumber(8), JNumber(28), JNumber(31), JNumber(32)>>)
    /\ game.wire[2].value["players"].value[1].value["port"] = JNumber(4)
    /\ game.wire[2].value["players"].value[2].value["isLocalPlayer"] = JBool(TRUE)
    /\ game.decoded[2].message.players[1].port = "Four"
    /\ game.decoded[2].message.stages[3] = "DreamLand"

\* the error has the code "duplicated" on the field
Duplicated(result, field) ==
    \E i \in DOMAIN result.errors[field] : result.errors[field][i] = "duplicated"

\* C24: no two rows of users share a connect code or a username.  A call of
\* create whose connect code or username a row has returns an error and
\* leaves the rows as they were.  A call of check_constraints_and_create
\* whose connect code or username a row has as it returns, returns an error
\* with the code "duplicated" on connect_code, respectively on username,
\* and leaves the rows as they were.
C24_NoDuplicateUsers ==
    [][/\ \A a, b \in users' :
             a # b => /\ a.connect_code # b.connect_code
                      /\ a.username # b.username
       /\ (/\ reply' # reply
           /\ reply'.op = "create"
           /\ \E row \in users : \/ row.connect_code = reply'.connect_code
                                 \/ row.username = reply'.username)
          => ~reply'.result.ok /\ users' = users
       /\ \A c \in Calls :
             (calls[c].pc # "idle" /\ calls'[c].pc = "idle")
             => LET codeUsed == \E row \in users :
                                    row.connect_code = calls[c].connect_code
                    nameUsed == \E row \in users :
                                    row.username = calls[c].username
                IN  /\ (codeUsed \/ nameUsed)
                       => ~reply'.result.ok /\ users' = users
                    /\ codeUsed => Duplicated(reply'.result, "connect_code")
                    /\ nameUsed => Duplicated(reply'.result, "username")
      ]_vars

\* C24, as the code has it: no two rows of users share a connect code or a
\* username.  A call of create whose connect code or username a row has
\* returns an error and leaves the rows as they were.  A call of
\* check_constraints_and_create whose connect code or username a row has as
\* it returns, returns an error and leaves the rows as they were.  When the
\* select of the call for the connect code, respectively for the username,
\* answered and a row it read has the value, the call returns from its
\* checks, and the error then has the code "duplicated" on that field; in
\* no other case does an error of the call have that code on the field.
\* A call that returns from its checks returns some error and none on
\* database.  A call that went on to create and whose connect code or
\* username a row has as it returns, returns the errors of User::new when
\* its display name or connect code is not valid, and the code "unknown" on
\* database and no other error when they are.
C24_DuplicatesRejected ==
    [][/\ \A a, b \in users' :
             a # b => /\ a.connect_code # b.connect_code
                      /\ a.username # b.username
       /\ (/\ reply' # reply
           /\ reply'.op = "create"
           /\ \E row \in users : \/ row.connect_code = reply'.connect_code
                                 \/ row.username = reply'.username)
          => ~reply'.result.ok /\ users' = users
       /\ \A c \in Calls :
             /\ (calls[c].pc # "idle" /\ calls'[c].pc = "idle")
                => /\ (\E row \in users :
                          \/ row.connect_code = calls[c].connect_code
                          \/ row.username = calls[c].username)
                      => ~reply'.result.ok /\ users' = users
                   /\ calls[c].pc = "created"
                      => /\ \/ reply'.result.ok
                            \/ /\ ~Duplicated(reply'.result, "connect_code")
                               /\ ~Duplicated(reply'.result, "username")
                         /\ (\E row \in users :
                                \/ row.connect_code = calls[c].connect_code
                                \/ row.username = calls[c].username)
                            => LET made == User_new(calls[c].display_name,
                                                    calls[c].connect_code, "", "")
                               IN  reply'.result.errors =
                                     IF made.ok
                                     THEN AddError(NoErrors, "database", "unknown")
                                     ELSE made.errors
             /\ (calls[c].pc = "code_checked" /\ calls'[c].pc # "code_checked")
                => LET returned == calls'[c].pc = "idle"
                       lookups == IF returned THEN reply'.lookups
                                  ELSE calls'[c].lookups
                       read == Snapshot(calls[c])
                       codeSeen == /\ lookups.connect_code
                                   /\ \E row \in read :
                                         row.connect_code = calls[c].connect_code
                       nameSeen == /\ lookups.username
                                   /\ \E row \in read :
                                         row.username = calls[c].username
                   IN  /\ lookups.connect_code = calls[c].lookups.connect_code
                       /\ (codeSeen \/ nameSeen) => returned
                       /\ returned
                          => /\ ~reply'.result.ok
                             /\ reply'.result.errors # NoErrors
                             /\ reply'.result.errors["database"] = <<>>
                             /\ users' = users
                             /\ codeSeen <=> Duplicated(reply'.result, "connect_code")
                             /\ nameSeen <=> Duplicated(reply'.result, "username")
      ]_vars

C24_Witness ==
    /\ reply.op = "check_constraints_and_create"
    /\ ~reply.result.ok
    /\ reply.result.errors["connect_code"] = <<"duplicated">>
    /\ reply.result.errors["username"] = <<>>
    /\ reply.lookups.connect_code
    /\ reply.lookups.username
    /\ Cardinality(users) = 1
    /\ \E row \in users : row.connect_code = reply.connect_code
    /\ \A row \in users : row.username # reply.username

\* the password the row was created with
CreatedWith(row) == row.password.hash.password

\* C25: get_user_from_credentials returns a user exactly when a row has
\* the username and the password verifies against the hash of that row; it
\* returns None for a username no row has and for a password other than
\* the one the row was created with; the user returned is the one of the
\* row with that username.
C25_CredentialsLookup ==
    reply.op = "get_user_from_credentials"
    => LET named == {row \in users : row.username = reply.username}
           verified == {row \in named : CreatedWith(row) = reply.password}
       IN  /\ reply.result.some <=> verified # {}
           /\ named = {} => ~reply.result.some
           /\ (\A row \in named : CreatedWith(row) # reply.password)
              => ~reply.result.some
           /\ reply.result.some
              => \E row \in verified :
                    /\ reply.result.user.uid = row.uid
                    /\ reply.result.user.display_name = row.display_name
                    /\ reply.result.user.connect_code = row.connect_code
                    /\ reply.result.user.play_key = row.play_key

\* C25, as the code has it: get_user_from_credentials returns a user only
\* when a row has the username and the password verifies against the hash
\* of that row, and it returns one whenever that is so and its select
\* answers; it returns None for a username no row has and for a password
\* other than the one the row was created with; the user returned is the
\* one of the row with that username.
C25_CredentialsLookupAnswered ==
    reply.op = "get_user_from_credentials"
    => LET named == {row \in users : row.username = reply.username}
           verified == {row \in named : CreatedWith(row) = reply.password}
       IN  /\ reply.result.some => verified # {}
           /\ reply.answered => (reply.result.some <=> verified # {})
           /\ named = {} => ~reply.result.some
           /\ (\A row \in named : CreatedWith(row) # reply.password)
              => ~reply.result.some
           /\ reply.result.some
              => \E row \in verified :
                    /\ reply.result.user.uid = row.uid
                    /\ reply.result.user.display_name = row.display_name
                    /\ reply.result.user.connect_code = row.connect_code
                    /\ reply.result.user.play_key = row.play_key

C25_Witness ==
    /\ reply.op = "get_user_from_credentials"
    /\ reply.answered
    /\ reply.username = "test"
    /\ reply.password = "hunter2"
    /\ ~reply.result.some
    /\ \E row \in users : row.username = "test" /\ CreatedWith(row) = "password"
    /\ \E row \in users : row.username = "test2"

\* the connect code has a separator, and the parts before and after the
\* first one are as the rule for connect codes wants them
WellFormedCode(code) ==
    \E k \in DOMAIN code :
        /\ code[k] = "#"
        /\ \A j \in 1..(k - 1) : code[j] # "#"
        /\ k > 1
        /\ \A j \in 1..(k - 1) :
              \/ code[j] \in Range(Letters)
              \/ is_numeric(code[j])
              \/ is_char_hiragana(code[j])
              \/ is_char_katakana(code[j])
        /\ k < Len(code)
        /\ \A j \in (k + 1)..Len(code) : is_numeric(code[j])

\* the connect code has a separator, the part before the first one is not
\* empty and made of upper-case ASCII letters, the digits 0 to 9, hiragana
\* and katakana only, and the part after it is not empty and made of
\* numeric characters only
DigitPrefixCode(code) ==
    \E k \in DOMAIN code :
        /\ code[k] = "#"
        /\ \A j \in 1..(k - 1) : code[j] # "#"
        /\ k > 1
        /\ \A j \in 1..(k - 1) :
              \/ code[j] \in Range(Letters)
              \/ code[j] \in AsciiDigits
              \/ is_char_hiragana(code[j])
              \/ is_char_katakana(code[j])
        /\ k < Len(code)
        /\ \A j \in (k + 1)..Len(code) : is_numeric(code[j])

\* C26: is_valid_connect_code(code) is true exactly when code has a '#',
\* the part before the first '#' is not empty and made of upper-case ASCII
\* letters, digits, hiragana and katakana only, and the part after the
\* first '#' is not empty and made of numeric characters only.
C26_ValidConnectCodeDigits ==
    (reply.op = "is_valid_connect_code" /\ reply.phase = "returned")
    => (reply.result <=> DigitPrefixCode(reply.connect_code))

\* C26, as the code has it: is_valid_connect_code(code) is true exactly
\* when code has a '#', the part before the first '#' is not empty and made
\* of upper-case ASCII letters, numeric characters (the digits and every
\* other character char::is_numeric accepts, such as the fraction U+00BD),
\* hiragana and katakana only, and the part after the first '#' is not
\* empty and made of numeric characters only.
C26_ValidConnectCodeShape ==
    (reply.op = "is_valid_connect_code" /\ reply.phase = "returned")
    => (reply.result <=> WellFormedCode(reply.connect_code))

C26_Witness ==
    /\ reply.op = "is_valid_connect_code"
    /\ reply.phase = "returned"
    /\ reply.connect_code = <<"U+00BD", "#", "1">>
    /\ reply.result

\* C27: User::new returns Ok only when the display name is not empty and
\* the connect code has at most 8 characters and is a valid connect code;
\* for a connect code that is valid but longer than 8 characters it returns
\* errors whose only connect_code error has the code "length".
C27_UserNewRejectsLongCode ==
    (reply.op = "User::new" /\ reply.phase = "returned")
    => /\ reply.result.ok
          => /\ Len(reply.display_name) >= 1
             /\ Len(reply.connect_code) <= 8
             /\ WellFormedCode(reply.connect_code)
             /\ reply.result.user.display_name = reply.display_name
             /\ reply.result.user.connect_code = reply.connect_code
       /\ (WellFormedCode(reply.connect_code) /\ Len(reply.connect_code) > 8)
          => /\ ~reply.result.ok
             /\ reply.result.errors["connect_code"] = <<"length">>

C27_Witness ==
    /\ reply.op = "User::new"
    /\ reply.phase = "returned"
    /\ reply.display_name = <<"t", "e", "s", "t">>
    /\ reply.connect_code = <<"A", "A", "A", "A", "A", "A", "U+3084", "#", "1">>
    /\ ~reply.result.ok
    /\ reply.result.errors["connect_code"] = <<"length">>
    /\ reply.result.errors["display_name"] = <<>>

\* C28: any two members of a ready group want each other: the target
\* connect code of each is the own connect code of the other.  So two peers
\* that report the same connect code and name the same target are not in
\* one group.
C28_GroupsPairMutualPeers ==
    \A g \in DOMAIN groups : \A p, q \in Range(groups[g]) :
        p # q
        => /\ data[p].search.connect_code = data[q].user.connect_code
           /\ data[q].search.connect_code = data[p].user.connect_code

\* the ready groups, as sets of peers, of a grouping pass that is handed
\* the connected ticketed peers in the given order
GroupsOfOrder(order, dat) ==
    LET runs == GroupBy(order, [i \in DOMAIN order |-> dat[order[i]].search.mode])
    IN  UNION {{Range(MatchedPeers(runs[k].key, runs[k].items, dat)[g]) :
                  g \in DOMAIN MatchedPeers(runs[k].key, runs[k].items, dat)} :
               k \in DOMAIN runs}

\* C29: the ready groups of a pass that has not aborted are those the pass
\* forms from the same connected ticketed peers in any other order.
C29_GroupsIndependentOfPeerOrder ==
    panic = NoPanic
    => \A order \in Shuffles(ConnectedPeers(state, data)) :
          GroupsOfOrder(order, data) = {Range(groups[g]) : g \in DOMAIN groups}

\* C30: after the Receive of a decodable Direct ticket that has no target
\* connect code the loop has not aborted.
C30_NoTargetDoesNotAbort ==
    (/\ lastEvent.type = "Receive"
     /\ lastEvent.decoded
     /\ lastTicket[lastEvent.peer].search.mode = "Direct"
     /\ lastTicket[lastEvent.peer].search.connect_code = None)
    => panic = NoPanic

(***************************************************************************)
(* C31 -- C36.                                                             *)
(***************************************************************************)
\* the messages of a returned call that carry is_host = true
HostMessages == {i \in DOMAIN game.messages : game.messages[i].is_host}

\* C31: for every mode and every group of 1 to Len(get_ports(mode)) players,
\* exactly one of the messages create_game returns has is_host = true,
\* whatever the draws.
C31_ExactlyOneHost ==
    (/\ game.phase = "returned"
     /\ Len(game._players) >= 1
     /\ Len(game._players) <= Len(get_ports(game.mode)))
    => /\ game.panic = NoPanic
       /\ Cardinality(HostMessages) = 1

\* the entries of a message that are marked as the local player
LocalEntries(m) == {j \in DOMAIN m.players : m.players[j].is_local_player}

\* C32: every get-ticket-resp handed to send_packet goes to the group member
\* it was rendered for: the recipient is at some position i of a ready
\* group, the only entry marked isLocalPlayer is entry i, and that entry
\* carries the uid, the connect code and the transport address of the
\* recipient.
C32_MessageDeliveredToItsPeer ==
    \A k \in GtrSends :
        LET m == outbox[k].msg
            p == outbox[k].to
        IN  /\ \E g \in DOMAIN groups : \E i \in DOMAIN groups[g] :
                  /\ groups[g][i] = p
                  /\ LocalEntries(m) = {i}
            /\ \A j \in LocalEntries(m) :
                  /\ m.players[j].uid = data[p].user.uid
                  /\ m.players[j].connect_code = data[p].user.connect_code
                  /\ m.players[j].ip_address
                        = PeerAddress(p).ip \o ":" \o ToString(PeerAddress(p).port)

C32_Witness ==
    \E a, b \in DOMAIN outbox :
        /\ a # b
        /\ IsGtr(outbox[a]) /\ IsGtr(outbox[b])
        /\ outbox[a].to # outbox[b].to
        /\ outbox[a].msg.match_id = outbox[b].msg.match_id
        /\ data[outbox[a].to].user.connect_code # data[outbox[b].to].user.connect_code
        /\ \E j \in LocalEntries(outbox[a].msg) :
              outbox[a].msg.players[j].uid = data[outbox[a].to].user.uid
        /\ \E j \in LocalEntries(outbox[b].msg) :
              outbox[b].msg.players[j].uid = data[outbox[b].to].user.uid

\* C33: the ready groups of one pass are pairwise disjoint and name no peer
\* twice, and no peer is sent more than one get-ticket-resp in an iteration.
C33_ReadyGroupsDisjoint ==
    /\ \A g, h \in DOMAIN groups :
          g # h => Range(groups[g]) \cap Range(groups[h]) = {}
    /\ \A g \in DOMAIN groups : \A i, j \in DOMAIN groups[g] :
          i # j => groups[g][i] # groups[g][j]
    /\ \A p \in DOMAIN state : GtrTo(outbox, p) <= 1

C33_Witness ==
    /\ Len(groups) = 2
    /\ Range(groups[1]) \cap Range(groups[2]) = {}
    /\ Len(outbox) = 4
    /\ \A p \in DOMAIN state : GtrTo(outbox, p) = 1
    /\ outbox[1].msg.match_id # outbox[3].msg.match_id
    /\ outbox[1].msg.players[1].port # outbox[3].msg.players[1].port

\* C34: every get-ticket-resp handed to send_packet is for a ticket whose
\* create-ticket-resp was handed to send_packet before it: the ticket the
\* recipient holds has been acknowledged, and in the iteration that received
\* the ticket the acknowledgement precedes the get-ticket-resp.
C34_AckBeforeSession ==
    \A k \in GtrSends :
        LET p == outbox[k].to IN
        /\ acked[p]
        /\ (lastEvent.type = "Receive" /\ lastEvent.peer = p /\ lastEvent.decoded)
           => \E i \in AckSends : i < k /\ outbox[i].to = p

C34_Witness ==
    \E p \in Peers : \E i \in AckSends : \E k \in GtrSends :
        /\ lastEvent.type = "Receive" /\ lastEvent.peer = p /\ lastEvent.decoded
        /\ outbox[i].to = p
        /\ outbox[k].to = p
        /\ i < k
        /\ acked[p]
        /\ \E q \in Peers : q # p /\ GtrTo(outbox, q) > 0 /\ acked[q]

\* C35: handle_enet_event leaves the ticket and the connection state of
\* every peer but the one the event is about as it found them: a Receive
\* changes only the sender's entry, a Connect or a Disconnect changes no
\* ticket (and no connection state) but that of its peer.
C35_HandlerChangesOnlyEventPeer ==
    game.phase = "handled"
    => \A p \in Peers :
          p # EventPeer(game.event)
          => /\ game.result.data[p] = game.data[p]
             /\ game.result.state[p] = game.state[p]

C35_Witness ==
    \E p, q \in Peers :
        /\ p # q
        /\ game.phase = "handled"
        /\ game.event.type = "Receive" /\ game.event.sender = p
        /\ game.result.panic = NoPanic
        /\ game.data[p] # NoTicket
        /\ game.result.data[p] # game.data[p]
        /\ game.state[q] = "Connected"
        /\ game.data[q] # NoTicket
        /\ game.result.data[q] = game.data[q]
        /\ game.result.data[q].search.connect_code
              # game.result.data[p].search.connect_code

\* C36: when check_constraints_and_create returns Ok(user), a row of the
\* table users has the uid of that user.
C36_OkOnlyIfStored ==
    (reply.op = "check_constraints_and_create" /\ reply.result.ok)
    => \E row \in users :
          /\ row.uid = reply.result.user.uid
          /\ row.username = reply.username
          /\ row.connect_code = reply.connect_code

====
